---- MODULE Spec2Model ----
(***************************************************************************)
(* Authentication and request-admission pipeline of ai-newsletter-api:     *)
(* credential hashing, JWT issuance and verification, the auth service     *)
(* (register / authenticate / delete) and the HTTP handlers on top of it.  *)
(*                                                                         *)
(* Specifications                                                          *)
(*   Spec      handlers run one at a time against the user table           *)
(*   RaceSpec  register_user split at its await points, several requests   *)
(*   TokenSpec create_access_token / verify_token against a clock          *)
(*   HashSpec  get_password_hash / verify_password on bounded passwords    *)
(*   SanitizeSpec  sanitize_prompt on bounded prompts, applied once and twice *)
(*   KeySpec   rate_limit_user_or_ip_key on bounded requests               *)
(*   LimiterSpec  the limiter's counters for two named limits              *)
(*   ExtractSpec  POST /interests/extract: dependencies, limiter, handler  *)
(*   BudgetSpec   authenticated requests to the route against a clock      *)
(***************************************************************************)
EXTENDS Integers, Sequences, FiniteSets, TLC

VARIABLES
    users,      \* committed rows of table "users"
    nextId,     \* next value of the users.id sequence
    now,        \* wall clock, in ticks
    issued,     \* access tokens handed out so far, with how they were made
    last,       \* the last handler call of Spec and its HTTP response
    tlast,      \* the last token-service call of TokenSpec
    hlast,      \* the last credential-hasher call of HashSpec
    procs,      \* RaceSpec: the in-flight register_user requests
    slast,      \* the last sanitize_prompt call of SanitizeSpec
    klast,      \* the last rate-limit key derivation of KeySpec
    storage,    \* the limiter's counter store: one window per (limit, key)
    hits,       \* history: per (limit, key), the hits of each instant and their outcome
    xlast,      \* the last request to POST /interests/extract and what it did
    reachable,  \* whether the counter store (Redis) answers
    storage_dead, \* Limiter._storage_dead: the limiter has fallen back to memory
    memory,     \* the counters of the limiter's in-memory fallback storage
    fhits,      \* history: per (route, key), the requests the limiter decided
    flast,      \* the last request of FallbackSpec and what the limiter did with it
    llast,      \* the last call of the LLM client in LlmSpec and the response made of it
    interests,  \* committed rows of table "interests"
    newsletters, \* committed rows of table "newsletters"
    content_items, \* committed rows of table "content_items"
    vlast,      \* the last call of a method of AuthService in ServiceSpec
    uow,        \* UowSpec: the request in flight, its session and its transaction
    instances,  \* SharedSpec: the request each service instance is handling
    app         \* LifespanSpec: the application's lifespan and its database engine

\* the state of the prompt sanitizer, the limiter and the extraction route
admission == <<slast, klast, storage, hits, xlast>>

\* the state of the limiter's fallback, of the unit of work, of the interest
\* extraction result and of the application's lifespan
fallback == <<reachable, storage_dead, memory, fhits, flast>>
tables == <<interests, newsletters, content_items>>
runtime == <<uow, instances, app>>
services == <<fallback, llast, tables, vlast, runtime>>

vars == <<users, nextId, now, issued, last, tlast, hlast, procs, admission, services>>

(***************************************************************************)
(* Bounds of the model.                                                    *)
(***************************************************************************)
PwWindow == 3       \* password byte lengths range over 72-PwWindow .. 72+PwWindow
MaxWide == 2        \* multi-byte characters appended to an ASCII run
NSalts == 1         \* distinct bcrypt salts

Min(a, b) == IF a < b THEN a ELSE b

(***************************************************************************)
(* Passwords.  A password is a run of n1 one-byte characters `base`        *)
(* followed by nw characters that each take w bytes in UTF-8.  Its UTF-8   *)
(* encoding is described the same way, with `frag` counting the leading    *)
(* bytes of a multi-byte character that a byte-level cut left behind.      *)
(***************************************************************************)
BcryptMaxBytes == 72

PwBases == {"a", "b"}

Pw(base, n1, w, nw) == [base |-> base, n1 |-> n1, w |-> w, nw |-> nw]

CharLen(pw) == pw.n1 + pw.nw

Encode(pw) == [base |-> pw.base, n1 |-> pw.n1, w |-> pw.w, nw |-> pw.nw, frag |-> 0]

ByteLen(b) == b.n1 + b.w * b.nw + b.frag

Utf8Len(pw) == ByteLen(Encode(pw))

\* the first n bytes of an encoding
Truncate(b, n) ==
    IF ByteLen(b) <= n THEN b
    ELSE IF b.n1 >= n
         THEN [base |-> b.base, n1 |-> n, w |-> 2, nw |-> 0, frag |-> 0]
         ELSE LET room == n - b.n1
                  k    == Min(b.nw, room \div b.w)
                  f    == IF b.nw > k THEN room - k * b.w ELSE 0
              IN  [base |-> b.base, n1 |-> b.n1,
                   w |-> IF k = 0 /\ f = 0 THEN 2 ELSE b.w,
                   nw |-> k, frag |-> f]

Salts == 1..NSalts

\* pwd_context.hash: bcrypt looks at the first 72 bytes only
pwd_context_hash(pw, salt) ==
    [salt |-> salt, digest |-> Truncate(Encode(pw), BcryptMaxBytes)]

pwd_context_verify(pw, h) == Truncate(Encode(pw), BcryptMaxBytes) = h.digest

NoHash == [salt |-> 0, digest |-> Encode(Pw("a", 0, 2, 0))]

Returned(v) == [raised |-> "", value |-> v]
Raised(exc, v) == [raised |-> exc, value |-> v]

get_password_hash_chars(pw, salt) ==
    IF CharLen(pw) > BcryptMaxBytes
    THEN Raised("ValueError", NoHash)
    ELSE Returned(pwd_context_hash(pw, salt))

get_password_hash(pw, salt) ==
    IF Utf8Len(pw) > BcryptMaxBytes
    THEN Raised("ValueError", NoHash)
    ELSE Returned(pwd_context_hash(pw, salt))

verify_password(pw, h) ==
    IF Utf8Len(pw) > BcryptMaxBytes
    THEN Raised("ValueError", FALSE)
    ELSE Returned(pwd_context_verify(pw, h))

(***************************************************************************)
(* HashSpec: the credential hasher applied to passwords whose encoded      *)
(* length lies around the 72-byte limit, in ASCII and multi-byte form.     *)
(***************************************************************************)
HashLens == (BcryptMaxBytes - PwWindow)..(BcryptMaxBytes + PwWindow)

HashPasswords ==
    { Pw(b, l, 2, 0) : b \in PwBases, l \in HashLens }
    \cup { Pw(b, l - w * k, w, k) : b \in PwBases, l \in HashLens, w \in 2..4, k \in 1..MaxWide }
    \cup { Pw("a", 0, w, l \div w) : l \in HashLens, w \in 2..4 }
    \cup { Pw(b, 12, 2, 0) : b \in PwBases }

\* hashes a caller can hold: the ones get_password_hash has returned
StoredHashes ==
    { get_password_hash(q, s).value :
        q \in { p \in HashPasswords : get_password_hash(p, 1).raised = "" }, s \in Salts }

NoPw == Pw("a", 0, 2, 0)

HCall(op, pw, h, raised, hashed, valid) ==
    [op |-> op, pw |-> pw, hash |-> h, raised |-> raised, hashed |-> hashed, valid |-> valid]

HInit == hlast = HCall("init", NoPw, NoHash, "", NoHash, FALSE)

\* HashSpec starts from one password and one stored hash, then calls a function once
HashInputs == hlast \in { HCall("input", pw, h, "", NoHash, FALSE) :
                            pw \in HashPasswords, h \in StoredHashes }

HashPassword(pw, salt) ==
    LET r == get_password_hash(pw, salt)
    IN  hlast' = HCall("get_password_hash", pw, NoHash, r.raised, r.value, FALSE)

VerifyPassword(pw, h) ==
    LET r == verify_password(pw, h)
    IN  hlast' = HCall("verify_password", pw, h, r.raised, NoHash, r.value)

HashPasswordStep ==
    /\ hlast.op = "input"
    /\ \E s \in Salts : HashPassword(hlast.pw, s)
    /\ UNCHANGED <<users, nextId, now, issued, last, tlast, procs, admission, services>>

VerifyPasswordStep ==
    /\ hlast.op = "input"
    /\ VerifyPassword(hlast.pw, hlast.hash)
    /\ UNCHANGED <<users, nextId, now, issued, last, tlast, procs, admission, services>>

(***************************************************************************)
(* Strings that carry numbers: str(user.id) and int(sub).                  *)
(***************************************************************************)
DigitChars == <<"0", "1", "2", "3", "4", "5", "6", "7", "8", "9">>

IsDigit(c) == \E i \in 1..10 : DigitChars[i] = c

DigitVal(c) == (CHOOSE i \in 1..10 : DigitChars[i] = c) - 1

RECURSIVE StrOfInt(_)
StrOfInt(n) ==
    IF n < 0 THEN <<"-">> \o StrOfInt(0 - n)
    ELSE IF n < 10 THEN <<DigitChars[n + 1]>>
    ELSE StrOfInt(n \div 10) \o <<DigitChars[(n % 10) + 1]>>

RECURSIVE LStrip(_)
LStrip(s) == IF s # <<>> /\ Head(s) = " " THEN LStrip(Tail(s)) ELSE s

RECURSIVE RStrip(_)
RStrip(s) ==
    IF s # <<>> /\ s[Len(s)] = " " THEN RStrip(SubSeq(s, 1, Len(s) - 1)) ELSE s

RECURSIVE DigitsVal(_)
DigitsVal(s) ==
    IF s = <<>> THEN 0
    ELSE 10 * DigitsVal(SubSeq(s, 1, Len(s) - 1)) + DigitVal(s[Len(s)])

\* int(s): surrounding blanks and one sign are accepted, then digits only
IntParse(s) ==
    LET t      == RStrip(LStrip(s))
        signed == t # <<>> /\ Head(t) \in {"+", "-"}
        body   == IF signed THEN Tail(t) ELSE t
    IN  IF body = <<>> \/ \E i \in 1..Len(body) : ~IsDigit(body[i])
        THEN Raised("ValueError", 0)
        ELSE Returned(IF signed /\ Head(t) = "-" THEN 0 - DigitsVal(body)
                      ELSE DigitsVal(body))

(***************************************************************************)
(* Token service.                                                          *)
(***************************************************************************)
TicksPerSecond == 2     \* clock ticks in one second of the "exp" claim
MaxTime == 4            \* the clock stops here
MaxDelta == 2           \* largest expires_delta a caller supplies, in ticks
MaxTokens == 1          \* tokens kept in `issued`

jwt_access_token_expire_ticks == 2

SecretKey == "jwt_secret_key"
Algorithm == "HS256"

\* the value of a "sub" claim: a string, a JSON number, or no claim at all
StrSub(s) == [t |-> "str", s |-> s]
IntSub(n) == [t |-> "int", s |-> StrOfInt(n)]
NoSub == [t |-> "none", s |-> <<>>]

\* timedelta | None
NoDelta == [set |-> FALSE, d |-> 0]
Delta(d) == [set |-> TRUE, d |-> d]

\* bool(timedelta) is False for a zero duration
Truthy(delta) == delta.set /\ delta.d # 0

\* timegm(dt.utctimetuple()): whole seconds, the fraction is dropped
ToSeconds(t) == t \div TicksPerSecond

jwt_encode(claims, key, alg) ==
    [kind |-> "jwt", key |-> key, alg |-> alg, sub |-> claims.sub, exp |-> claims.exp]

EmptyToken == [kind |-> "empty", key |-> "", alg |-> "", sub |-> NoSub, exp |-> 0]
MalformedToken == [kind |-> "malformed", key |-> "", alg |-> "", sub |-> NoSub, exp |-> 0]

create_access_token(data, expires_delta, t) ==
    LET expire == IF Truthy(expires_delta)
                  THEN t + expires_delta.d
                  ELSE t + jwt_access_token_expire_ticks
    IN  jwt_encode([sub |-> data.sub, exp |-> ToSeconds(expire)], SecretKey, Algorithm)

None == [none |-> TRUE, sub |-> NoSub, exp |-> 0]
Payload(sub, exp) == [none |-> FALSE, sub |-> sub, exp |-> exp]

\* jose.jwt.decode: segments, header algorithm, signature, then the exp claim
jwt_decode(tok, key, algorithms, t) ==
    IF tok.kind # "jwt" THEN Raised("JWTError", None)
    ELSE IF tok.alg \notin algorithms THEN Raised("JWTError", None)
    ELSE IF tok.key # key THEN Raised("JWTError", None)
    ELSE IF tok.exp < ToSeconds(t) THEN Raised("ExpiredSignatureError", None)
    ELSE Returned(Payload(tok.sub, tok.exp))

\* the exception classes an `except JWTError` clause catches
JWTErrorClasses == {"JWTError", "ExpiredSignatureError", "JWTClaimsError"}

verify_token_expired_only(tok, t) ==
    LET r == jwt_decode(tok, SecretKey, {Algorithm}, t)
    IN  IF r.raised = "" THEN Returned(r.value)
        ELSE IF r.raised \in {"ExpiredSignatureError"} THEN Returned(None)
        ELSE Raised(r.raised, None)

verify_token(tok, t) ==
    LET r == jwt_decode(tok, SecretKey, {Algorithm}, t)
    IN  IF r.raised = "" THEN Returned(r.value)
        ELSE IF r.raised \in JWTErrorClasses THEN Returned(None)
        ELSE Raised(r.raised, None)

\* tokens nobody obtained from create_access_token
ForgedTokens ==
    { EmptyToken, MalformedToken }
    \cup { [kind |-> "jwt", key |-> k, alg |-> a, sub |-> StrSub(StrOfInt(1)),
            exp |-> ToSeconds(MaxTime) + 1] :
             k \in {"wrong_secret"}, a \in {Algorithm} }
    \cup { [kind |-> "jwt", key |-> "", alg |-> "none", sub |-> StrSub(StrOfInt(1)),
            exp |-> ToSeconds(MaxTime) + 1] }

(***************************************************************************)
(* TokenSpec: tokens are created with and without expires_delta, time      *)
(* passes, and created or forged tokens are verified.                      *)
(***************************************************************************)
Deltas == { NoDelta } \cup { Delta(d) : d \in (0 - 1)..MaxDelta }

\* the "sub" values callers put into data
TokenSubs ==
    { StrSub(StrOfInt(1)), StrSub(<<"a", "b", "c">>), IntSub(1), NoSub }

NoToken == EmptyToken

Issue(tok, delta, uid) == [tok |-> tok, t0 |-> now, delta |-> delta, uid |-> uid]

Keep(rec) ==
    /\ rec \in issued \/ Cardinality(issued) < MaxTokens
    /\ issued' = issued \cup {rec}

TInit ==
    tlast = [op |-> "init", tok |-> NoToken, at |-> 0, delta |-> NoDelta,
             raised |-> "", value |-> None]

CreateAccessToken(sub, delta) ==
    LET tok == create_access_token([sub |-> sub], delta, now)
    IN  /\ Keep(Issue(tok, delta, 0))
        /\ tlast' = [op |-> "create_access_token", tok |-> tok, at |-> now,
                     delta |-> delta, raised |-> "", value |-> None]
        /\ UNCHANGED <<users, nextId, now, last, hlast, procs, admission, services>>

VerifyToken(tok) ==
    LET r == verify_token(tok, now)
    IN  /\ tlast' = [op |-> "verify_token", tok |-> tok, at |-> now,
                     delta |-> NoDelta, raised |-> r.raised, value |-> r.value]
        /\ UNCHANGED <<users, nextId, now, issued, last, hlast, procs, admission, services>>

CreateAccessTokenStep == \E sub \in TokenSubs, delta \in Deltas : CreateAccessToken(sub, delta)

VerifyTokenStep == \E tok \in { i.tok : i \in issued } \cup ForgedTokens : VerifyToken(tok)

TokenTick ==
    /\ now < MaxTime
    /\ now' = now + 1
    /\ UNCHANGED <<users, nextId, issued, last, tlast, hlast, procs, admission, services>>

(***************************************************************************)
(* Storage: table "users" with a unique index on email and a serial id.    *)
(***************************************************************************)
MaxUsers == 2       \* rows the id sequence hands out

Emails == {"a@example.com", "b@example.com"}

User(id, email, h) == [id |-> id, email |-> email, hashed_password |-> h]

NoUser == User(0, "", NoHash)

select_user_no_where(U, email) ==
    IF U # {} THEN CHOOSE u \in U : TRUE ELSE NoUser

\* select(User).where(User.email == email) ... scalar_one_or_none()
select_user_by_email(U, email) ==
    IF \E u \in U : u.email = email
    THEN CHOOSE u \in U : u.email = email
    ELSE NoUser

\* select(User).where(User.id == user_id) ... scalar_one_or_none()
select_user_by_id(U, id) ==
    IF \E u \in U : u.id = id
    THEN CHOOSE u \in U : u.id = id
    ELSE NoUser

\* text of the driver error for a violated unique index, as the words in it
UniqueViolationText ==
    {"duplicate", "key", "value", "violates", "unique", "constraint", "ix_users_email"}

\* insert(User).values(...).returning(User) against rows U
insert_user(U, row) ==
    IF \E u \in U : u.email = row.email
    THEN [raised |-> "IntegrityError", orig |-> UniqueViolationText, value |-> NoUser]
    ELSE [raised |-> "", orig |-> {}, value |-> row]

\* delete(User).where(User.id == user_id), and the same without its WHERE
delete_user_rows_no_where(U, id) == {}

delete_user_rows(U, id) == { u \in U : u.id # id }

(***************************************************************************)
(* AuthService.                                                            *)
(***************************************************************************)
AuthenticationErrors ==
    {"UserAlreadyExistsError", "InvalidCredentialsError", "PasswordTooLongError"}

error_code(exc) ==
    CASE exc = "UserAlreadyExistsError" -> "user_exists"
      [] exc = "InvalidCredentialsError" -> "invalid_credentials"
      [] exc = "PasswordTooLongError" -> "password_too_long"
      [] OTHER -> ""

error_message(exc) ==
    CASE exc = "UserAlreadyExistsError" -> "Email already registered"
      [] exc = "InvalidCredentialsError" -> "Incorrect email or password"
      [] exc = "PasswordTooLongError" -> "Password must not exceed 72 bytes when UTF-8 encoded"
      [] OTHER -> ""

is_not_unique_violation(orig) == "users_email_key" \in orig

is_unique_violation(orig) ==
    \/ "unique" \in orig
    \/ "duplicate" \in orig
    \/ "23505" \in orig
    \/ "ix_users_email" \in orig

\* the except IntegrityError clause of register_user, and the same reporting
\* every integrity error as a registered email
translate_integrity_error_always_exists(orig) == "UserAlreadyExistsError"

translate_integrity_error(orig) ==
    IF is_unique_violation(orig) THEN "UserAlreadyExistsError" ELSE "IntegrityError"

\* the INSERT when the storage reports the integrity error whose text is
\* fault, if any, whatever the rows are
insert_user_or_fail(U, row, fault) ==
    IF fault # {}
    THEN [raised |-> "IntegrityError", orig |-> fault, value |-> NoUser]
    ELSE insert_user(U, row)

\* register_user against rows U; orig is the driver error of the exception
\* that leaves the function, if it has one
register_user_on(U, email, pw, salt, id, fault) ==
    IF select_user_by_email(U, email) # NoUser
    THEN [exc |-> "UserAlreadyExistsError", orig |-> {}, user |-> NoUser, users |-> U]
    ELSE LET h == get_password_hash(pw, salt)
         IN  IF h.raised = "ValueError"
             THEN [exc |-> "PasswordTooLongError", orig |-> {}, user |-> NoUser, users |-> U]
             ELSE LET ins == insert_user_or_fail(U, User(id, email, h.value), fault)
                  IN  IF ins.raised = "IntegrityError"
                      THEN [exc |-> translate_integrity_error(ins.orig),
                            orig |-> IF translate_integrity_error(ins.orig) = "IntegrityError"
                                     THEN ins.orig ELSE {},
                            user |-> NoUser, users |-> U]
                      ELSE [exc |-> "", orig |-> {}, user |-> ins.value,
                            users |-> U \cup {ins.value}]

\* register_user with no other request in flight and a storage without faults
register_user(U, email, pw, salt, id) == register_user_on(U, email, pw, salt, id, {})

authenticate_user(U, email, pw) ==
    LET user == select_user_by_email(U, email)
    IN  IF user = NoUser
        THEN [exc |-> "InvalidCredentialsError", user |-> NoUser]
        ELSE LET v == verify_password(pw, user.hashed_password)
             IN  IF v.raised = "ValueError"
                 THEN [exc |-> "PasswordTooLongError", user |-> NoUser]
                 ELSE IF ~v.value
                      THEN [exc |-> "InvalidCredentialsError", user |-> NoUser]
                      ELSE [exc |-> "", user |-> user]

delete_user(U, id) == [users |-> delete_user_rows(U, id), id |-> id]

get_user_by_id(U, id) == select_user_by_id(U, id)

(***************************************************************************)
(* HTTP layer: errors, the bearer-token dependency, the handlers.          *)
(***************************************************************************)
Resp(status, error, message, www) ==
    [status |-> status, error |-> error, message |-> message, www |-> www]

NoResp == Resp(0, "", "", "")

\* ERROR_CODE_BY_STATUS.get(status_code, "error")
map_status_to_error(status) ==
    CASE status = 400 -> "bad_request"
      [] status = 401 -> "unauthorized"
      [] status = 403 -> "forbidden"
      [] status = 404 -> "not_found"
      [] status = 409 -> "conflict"
      [] status = 422 -> "validation_error"
      [] status = 429 -> "rate_limited"
      [] status = 500 -> "internal_error"
      [] status = 503 -> "service_unavailable"
      [] OTHER -> "error"

\* HTTPException whose detail is the dict made by build_http_error
build_http_error(status, error, message, www) ==
    [status |-> status, dict |-> TRUE, error |-> error, message |-> message, www |-> www]

\* HTTPException whose detail is a plain string
HTTPExceptionText(status, text, www) ==
    [status |-> status, dict |-> FALSE, error |-> "", message |-> text, www |-> www]

http_exception_handler(exc) ==
    IF exc.dict
    THEN Resp(exc.status, exc.error, exc.message, exc.www)
    ELSE Resp(exc.status, map_status_to_error(exc.status), exc.message, exc.www)

unhandled_exception_handler == Resp(500, "internal_error", "Internal Server Error", "")

\* Authorization header
NoHeader == [present |-> FALSE, scheme |-> "", param |-> NoToken]
Header(scheme, tok) == [present |-> TRUE, scheme |-> scheme, param |-> tok]

Lower(scheme) ==
    CASE scheme = "Bearer" -> "bearer"
      [] scheme = "bearer" -> "bearer"
      [] scheme = "Basic" -> "basic"
      [] OTHER -> scheme

NoHttpExc == build_http_error(0, "", "", "")

Ok(v) == [ok |-> TRUE, exc |-> NoHttpExc, value |-> v]
Fail(exc, v) == [ok |-> FALSE, exc |-> exc, value |-> v]

\* OAuth2PasswordBearer.__call__
oauth2_scheme(hdr) ==
    IF ~hdr.present \/ Lower(hdr.scheme) # "bearer"
    THEN Fail(HTTPExceptionText(401, "Not authenticated", "Bearer"), NoToken)
    ELSE Ok(hdr.param)

credentials_exception ==
    build_http_error(401, "unauthorized", "Could not validate credentials", "Bearer")

get_current_user(tok, U, t) ==
    LET payload == verify_token(tok, t).value
    IN  IF payload = None THEN Fail(credentials_exception, NoUser)
        ELSE IF payload.sub.t # "str" THEN Fail(credentials_exception, NoUser)
        ELSE LET id == IntParse(payload.sub.s)
             IN  IF id.raised = "ValueError" THEN Fail(credentials_exception, NoUser)
                 ELSE LET user == get_user_by_id(U, id.value)
                      IN  IF user = NoUser THEN Fail(credentials_exception, NoUser)
                          ELSE Ok(user)

\* Depends(get_current_user): the token comes from oauth2_scheme
current_user_dependency(hdr, U, t) ==
    LET tok == oauth2_scheme(hdr)
    IN  IF ~tok.ok THEN Fail(tok.exc, NoUser)
        ELSE get_current_user(tok.value, U, t)

\* UserRegister / UserLogin: max_length=50 and the 72-byte field validator
validate_password_length(pw) == CharLen(pw) >= 8 /\ CharLen(pw) <= 50 /\ Utf8Len(pw) <= 72

(***************************************************************************)
(* Spec: the handlers of /auth, each run to completion (its transaction    *)
(* committed or rolled back) before the next one starts.                   *)
(***************************************************************************)
SpecPasswords ==
    { Pw("a", 12, 2, 0), Pw("b", 12, 2, 0),     \* ordinary passwords
      Pw("a", 73, 2, 0) }                       \* 73 ASCII characters, 73 bytes

\* tokens signed by the server for data other than a user id
OddSubs ==
    { NoSub, IntSub(1), StrSub(<<"a", "b", "c">>), StrSub(<<" ", "1">>),
      StrSub(StrOfInt(MaxUsers + 1)) }

OddTokens == { create_access_token([sub |-> s], NoDelta, now) : s \in OddSubs }

SpecTokens == { i.tok : i \in issued } \cup ForgedTokens \cup OddTokens

SpecHeaders ==
    { NoHeader, Header("Basic", MalformedToken) }
    \cup { Header("Bearer", tok) : tok \in SpecTokens }
    \cup { Header("bearer", i.tok) : i \in issued }

Call(op, email, pw, hdr, exc, resp, uid, tok) ==
    [op |-> op, email |-> email, pw |-> pw, hdr |-> hdr, at |-> now, before |-> users,
     exc |-> exc, resp |-> resp, uid |-> uid, tok |-> tok]

SInit ==
    last = [op |-> "init", email |-> "", pw |-> NoPw, hdr |-> NoHeader, at |-> 0,
            before |-> {}, exc |-> "", resp |-> NoResp, uid |-> 0, tok |-> NoToken]

\* the outcome of the register handler for what register_user raised
register_response(exc) ==
    LET status == IF exc = "UserAlreadyExistsError" THEN 400
                  ELSE IF exc = "PasswordTooLongError" THEN 422
                  ELSE 400
    IN  IF exc = "" THEN Resp(201, "", "", "")
        ELSE IF exc \in AuthenticationErrors
        THEN http_exception_handler(
                 build_http_error(status, error_code(exc), error_message(exc), ""))
        ELSE unhandled_exception_handler

\* POST /auth/register
Register(email, pw, salt) ==
    LET r == register_user(users, email, pw, salt, nextId)
    IN  /\ r.exc = "" => nextId <= MaxUsers
        /\ users' = IF r.exc = "" THEN r.users ELSE users
        /\ nextId' = IF r.exc = "" THEN nextId + 1 ELSE nextId
        /\ last' = Call("register", email, pw, NoHeader, r.exc, register_response(r.exc),
                        r.user.id, NoToken)
        /\ UNCHANGED <<now, issued, tlast, hlast, procs, admission, services>>

\* POST /auth/login
Login(email, pw) ==
    LET r == authenticate_user(users, email, pw)
        status == IF r.exc = "InvalidCredentialsError" THEN 401
                  ELSE IF r.exc = "PasswordTooLongError" THEN 422
                  ELSE 400
        www == IF status = 401 THEN "Bearer" ELSE ""
        tok == create_access_token([sub |-> StrSub(StrOfInt(r.user.id))], NoDelta, now)
    IN  IF r.exc = ""
        THEN /\ Keep(Issue(tok, NoDelta, r.user.id))
             /\ last' = Call("login", email, pw, NoHeader, "", Resp(200, "", "", ""),
                             r.user.id, tok)
             /\ UNCHANGED <<users, nextId, now, tlast, hlast, procs, admission, services>>
        ELSE /\ last' = Call("login", email, pw, NoHeader, r.exc,
                             http_exception_handler(
                                 build_http_error(status, error_code(r.exc),
                                                  error_message(r.exc), www)),
                             0, NoToken)
             /\ UNCHANGED <<users, nextId, now, issued, tlast, hlast, procs, admission, services>>

\* GET /auth/me
GetMe(hdr) ==
    LET cu == current_user_dependency(hdr, users, now)
    IN  /\ last' = IF cu.ok
                   THEN Call("get_me", "", NoPw, hdr, "", Resp(200, "", "", ""),
                             cu.value.id, NoToken)
                   ELSE Call("get_me", "", NoPw, hdr, "HTTPException",
                             http_exception_handler(cu.exc), 0, NoToken)
        /\ UNCHANGED <<users, nextId, now, issued, tlast, hlast, procs, admission, services>>

\* DELETE /auth/me
DeleteMe(hdr) ==
    LET cu == current_user_dependency(hdr, users, now)
    IN  IF cu.ok
        THEN LET d == delete_user(users, cu.value.id)
             IN  /\ users' = d.users
                 /\ last' = Call("delete_me", "", NoPw, hdr, "", Resp(200, "", "", ""),
                                 d.id, NoToken)
                 /\ UNCHANGED <<nextId, now, issued, tlast, hlast, procs, admission, services>>
        ELSE /\ last' = Call("delete_me", "", NoPw, hdr, "HTTPException",
                             http_exception_handler(cu.exc), 0, NoToken)
             /\ UNCHANGED <<users, nextId, now, issued, tlast, hlast, procs, admission, services>>

RegisterStep == \E email \in Emails, pw \in SpecPasswords, salt \in Salts : Register(email, pw, salt)

LoginStep == \E email \in Emails, pw \in SpecPasswords : Login(email, pw)

GetMeStep == \E hdr \in SpecHeaders : GetMe(hdr)

DeleteMeStep == \E hdr \in SpecHeaders : DeleteMe(hdr)

Tick ==
    /\ now < MaxTime
    /\ now' = now + 1
    /\ UNCHANGED <<users, nextId, issued, last, tlast, hlast, procs, admission, services>>

(***************************************************************************)
(* RaceSpec: several register requests in flight.  Each runs register_user *)
(* in its own transaction, one await at a time: the advisory SELECT, the   *)
(* hash, the INSERT, and the commit that get_db_transaction / get_uow does *)
(* when the handler returns.  Statements read committed rows; an INSERT of *)
(* a key that another open transaction has inserted waits for that         *)
(* transaction to end.                                                     *)
(***************************************************************************)
NProcs == 2         \* concurrent register requests

Procs == 1..NProcs

Proc(pc, email, pw, row, tried, exc, resp) ==
    [pc |-> pc, email |-> email, pw |-> pw, row |-> row, tried |-> tried,
     exc |-> exc, resp |-> resp]

RaceInputs ==
    procs \in [Procs -> { Proc("check", e, pw, NoUser, FALSE, "", NoResp) :
                            e \in Emails, pw \in SpecPasswords }]

Finish(p, exc) ==
    [procs EXCEPT ![p].pc = "done", ![p].exc = exc, ![p].resp = register_response(exc)]

\* result = await session.execute(select(User).where(User.email == email))
RegCheck(p) ==
    /\ procs[p].pc = "check"
    /\ procs' = IF select_user_by_email(users, procs[p].email) # NoUser
                THEN Finish(p, "UserAlreadyExistsError")
                ELSE [procs EXCEPT ![p].pc = "hash"]
    /\ UNCHANGED <<users, nextId, now, issued, last, tlast, hlast, admission, services>>

\* hashed_password = get_password_hash(password)
RegHash(p) ==
    /\ procs[p].pc = "hash"
    /\ \E salt \in Salts :
         LET h == get_password_hash(procs[p].pw, salt)
         IN  procs' = IF h.raised = "ValueError"
                      THEN Finish(p, "PasswordTooLongError")
                      ELSE [procs EXCEPT ![p].pc = "insert",
                                         ![p].row = User(0, procs[p].email, h.value)]
    /\ UNCHANGED <<users, nextId, now, issued, last, tlast, hlast, admission, services>>

\* await session.execute(insert(User).values(...).returning(User))
RegInsert(p) ==
    /\ procs[p].pc = "insert"
    /\ \A q \in Procs \ {p} :
         ~(procs[q].pc = "commit" /\ procs[q].row.email = procs[p].email)
    /\ LET ins == insert_user(users, [procs[p].row EXCEPT !.id = nextId])
       IN  procs' = IF ins.raised = "IntegrityError"
                    THEN [Finish(p, translate_integrity_error(ins.orig)) EXCEPT ![p].tried = TRUE]
                    ELSE [procs EXCEPT ![p].pc = "commit", ![p].row = ins.value,
                                       ![p].tried = TRUE]
    /\ nextId' = nextId + 1
    /\ UNCHANGED <<users, now, issued, last, tlast, hlast, admission, services>>

\* await session.commit() after the handler has returned
RegCommit(p) ==
    /\ procs[p].pc = "commit"
    /\ users' = users \cup {procs[p].row}
    /\ procs' = Finish(p, "")
    /\ UNCHANGED <<nextId, now, issued, last, tlast, hlast, admission, services>>

RegCheckStep == \E p \in Procs : RegCheck(p)
RegHashStep == \E p \in Procs : RegHash(p)
RegInsertStep == \E p \in Procs : RegInsert(p)
RegCommitStep == \E p \in Procs : RegCommit(p)

(***************************************************************************)
(* Prompt sanitizer.  A prompt is a sequence of characters; the regular    *)
(* expressions of the module are evaluated as Python's re evaluates them.  *)
(***************************************************************************)
MaxChunks == 4      \* a prompt is made of at most this many chunks

\* [\x00-\x08\x0B\x0C\x0E-\x1F\x7F], of which the model's alphabet has BEL
ControlChars == {"\\x07"}

\* the character ` that delimits code spans
Backtick == "BACKTICK"

\* the characters str.split() separates on and \S excludes
Whitespace == {" ", "\t", "\n"}

UpperCase ==
    <<"A", "B", "C", "D", "E", "F", "G", "H", "I", "J", "K", "L", "M",
      "N", "O", "P", "Q", "R", "S", "T", "U", "V", "W", "X", "Y", "Z">>

LowerCase ==
    <<"a", "b", "c", "d", "e", "f", "g", "h", "i", "j", "k", "l", "m",
      "n", "o", "p", "q", "r", "s", "t", "u", "v", "w", "x", "y", "z">>

\* re.IGNORECASE compares characters by their lower-case form
IgnoreCase(c) ==
    IF \E i \in 1..26 : UpperCase[i] = c
    THEN LowerCase[CHOOSE i \in 1..26 : UpperCase[i] = c]
    ELSE c

\* a literal matches at position i of s, letters compared case-insensitively
MatchesAt(s, i, lit) ==
    /\ i + Len(lit) - 1 <= Len(s)
    /\ \A k \in 1..Len(lit) : IgnoreCase(s[i + k - 1]) = lit[k]

\* _CONTROL_CHARS_PATTERN.search
CONTROL_CHARS_PATTERN(s) == \E i \in 1..Len(s) : s[i] \in ControlChars

UrlPrefixes ==
    { <<"h", "t", "t", "p", ":", "/", "/">>,
      <<"h", "t", "t", "p", "s", ":", "/", "/">>,
      <<"w", "w", "w", ".">> }

\* _URL_PATTERN.search: (https?://|www\.)\S+
URL_PATTERN(s) ==
    \E i \in 1..Len(s), pre \in UrlPrefixes :
        /\ MatchesAt(s, i, pre)
        /\ i + Len(pre) <= Len(s)
        /\ s[i + Len(pre)] \notin Whitespace

IgnoreWord == <<"i", "g", "n", "o", "r", "e">>

InstructionsWord ==
    <<"i", "n", "s", "t", "r", "u", "c", "t", "i", "o", "n", "s">>

\* the literals the four _INJECTION_PATTERNS accept
InjectionLiterals ==
    { IgnoreWord \o <<" ">> \o w \o <<" ">> \o InstructionsWord :
        w \in { <<"a", "l", "l">>,
                <<"p", "r", "e", "v", "i", "o", "u", "s">>,
                <<"p", "r", "i", "o", "r">> } }
    \cup { <<"s", "y", "s", "t", "e", "m", " ", "p", "r", "o", "m", "p", "t">>,
           <<"d", "e", "v", "e", "l", "o", "p", "e", "r", " ", "m", "e", "s", "s", "a", "g", "e">>,
           <<"j", "a", "i", "l", "b", "r", "e", "a", "k">> }

\* any(pattern.search(prompt) for pattern in _INJECTION_PATTERNS)
INJECTION_PATTERNS(s) ==
    \E i \in 1..Len(s), lit \in InjectionLiterals : MatchesAt(s, i, lit)

FenceAt(s, i) ==
    i + 2 <= Len(s) /\ s[i] = Backtick /\ s[i + 1] = Backtick /\ s[i + 2] = Backtick

\* _CODE_BLOCK_PATTERN.search: ```.*?``` with DOTALL
CODE_BLOCK_PATTERN(s) ==
    \E i \in 1..Len(s), j \in 1..Len(s) : FenceAt(s, i) /\ j >= i + 3 /\ FenceAt(s, j)

\* _INLINE_CODE_PATTERN.search: `[^`]+`
INLINE_CODE_PATTERN(s) ==
    \E i \in 1..Len(s), j \in 1..Len(s) :
        /\ j >= i + 2
        /\ s[i] = Backtick /\ s[j] = Backtick
        /\ \A k \in (i + 1)..(j - 1) : s[k] # Backtick

RECURSIVE code_block_sub(_)
\* _CODE_BLOCK_PATTERN.sub(" ", s): leftmost matches, each as short as possible
code_block_sub(s) ==
    IF s = <<>> THEN <<>>
    ELSE IF FenceAt(s, 1) /\ \E j \in 4..Len(s) : FenceAt(s, j)
    THEN LET j == CHOOSE j \in 4..Len(s) :
                      FenceAt(s, j) /\ \A k \in 4..(j - 1) : ~FenceAt(s, k)
         IN  <<" ">> \o code_block_sub(SubSeq(s, j + 3, Len(s)))
    ELSE <<Head(s)>> \o code_block_sub(Tail(s))

RECURSIVE inline_code_sub(_)
\* _INLINE_CODE_PATTERN.sub(" ", s)
inline_code_sub(s) ==
    IF s = <<>> THEN <<>>
    ELSE IF Len(s) >= 3 /\ s[1] = Backtick /\ s[2] # Backtick /\ \E j \in 3..Len(s) : s[j] = Backtick
    THEN LET j == CHOOSE j \in 3..Len(s) :
                      s[j] = Backtick /\ \A k \in 3..(j - 1) : s[k] # Backtick
         IN  <<" ">> \o inline_code_sub(SubSeq(s, j + 1, Len(s)))
    ELSE <<Head(s)>> \o inline_code_sub(Tail(s))

RECURSIVE split_from(_, _, _)
\* the words of s read so far (`cur` is the word being read)
split_from(s, cur, seps) ==
    LET done == IF cur = <<>> THEN <<>> ELSE <<cur>>
    IN  IF s = <<>> THEN done
        ELSE IF Head(s) \in seps THEN done \o split_from(Tail(s), <<>>, seps)
        ELSE split_from(Tail(s), Append(cur, Head(s)), seps)

\* str.split(): the maximal runs of non-whitespace characters
\* (str_split_spaces separates words on the space character only)
str_split_spaces(s) == split_from(s, <<>>, {" "})

str_split(s) == split_from(s, <<>>, Whitespace)

RECURSIVE str_join(_, _)
\* sep.join(words)
str_join(sep, words) ==
    IF words = <<>> THEN <<>>
    ELSE IF Len(words) = 1 THEN words[1]
    ELSE words[1] \o sep \o str_join(sep, Tail(words))

\* the outcome of sanitize_prompt: the text, or PromptValidationError(message)
Sanitized(text) == [raised |-> "", code |-> "", message |-> "", value |-> text]
PromptValidationError(message) ==
    [raised |-> "PromptValidationError", code |-> "invalid_prompt",
     message |-> message, value |-> <<>>]

ControlMessage == "Prompt contains unsupported control characters."
UrlMessage == "Prompt must not include URLs."
InstructionMessage == "Prompt contains disallowed instruction patterns."
EmptyMessage == "Prompt must include valid text after sanitization."

\* lines 36-38: both substitutions, then the whitespace normalisation
strip_and_normalize(prompt) ==
    str_join(<<" ">>, str_split(inline_code_sub(code_block_sub(prompt))))

\* sanitize_prompt, and the same with the URL check moved in front of the
\* control-character check
sanitize_prompt_url_first(prompt) ==
    IF URL_PATTERN(prompt) THEN PromptValidationError(UrlMessage)
    ELSE IF CONTROL_CHARS_PATTERN(prompt) THEN PromptValidationError(ControlMessage)
    ELSE IF INJECTION_PATTERNS(prompt) THEN PromptValidationError(InstructionMessage)
    ELSE LET sanitized == strip_and_normalize(prompt)
         IN  IF sanitized = <<>> THEN PromptValidationError(EmptyMessage)
             ELSE Sanitized(sanitized)

sanitize_prompt(prompt) ==
    IF CONTROL_CHARS_PATTERN(prompt) THEN PromptValidationError(ControlMessage)
    ELSE IF URL_PATTERN(prompt) THEN PromptValidationError(UrlMessage)
    ELSE IF INJECTION_PATTERNS(prompt) THEN PromptValidationError(InstructionMessage)
    ELSE LET sanitized == strip_and_normalize(prompt)
         IN  IF sanitized = <<>> THEN PromptValidationError(EmptyMessage)
             ELSE Sanitized(sanitized)

(***************************************************************************)
(* SanitizeSpec: a prompt is drawn, sanitized, and the text that comes     *)
(* back is sanitized again.                                                *)
(***************************************************************************)
\* the pieces prompts are made of
Chunks ==
    { <<"I", "g", "n", "o", "r", "e", " ">>,
      <<"p", "r", "e", "v", "i", "o", "u", "s", " ", "i", "n", "s", "t", "r", "u", "c", "t", "i", "o", "n", "s">>,
      <<Backtick>>, <<Backtick, "j", Backtick>>, <<Backtick, Backtick, Backtick>>, <<"\n">>, <<"\\x07">>,
      <<"h", "t", "t", "p", ":", "/", "/", "e">> }

RECURSIVE PromptsOfLen(_)
PromptsOfLen(n) ==
    IF n = 0 THEN { <<>> }
    ELSE { c \o p : c \in Chunks, p \in PromptsOfLen(n - 1) }

Prompts == UNION { PromptsOfLen(n) : n \in 0..MaxChunks }

NoResult == Sanitized(<<>>)

SCall(op, prompt, first, second) ==
    [op |-> op, prompt |-> prompt, first |-> first, second |-> second]

SanInit == slast = SCall("init", <<>>, NoResult, NoResult)

SanitizeInputs == slast \in { SCall("input", p, NoResult, NoResult) : p \in Prompts }

SanitizePromptStep ==
    /\ slast.op = "input"
    /\ slast' = SCall("sanitize_prompt", slast.prompt, sanitize_prompt(slast.prompt), NoResult)
    /\ UNCHANGED <<users, nextId, now, issued, last, tlast, hlast, procs,
                   klast, storage, hits, xlast, services>>

SanitizeAgainStep ==
    /\ slast.op = "sanitize_prompt"
    /\ slast.first.raised = ""
    /\ slast' = SCall("sanitize_again", slast.prompt, slast.first,
                      sanitize_prompt(slast.first.value))
    /\ UNCHANGED <<users, nextId, now, issued, last, tlast, hlast, procs,
                   klast, storage, hits, xlast, services>>

(***************************************************************************)
(* Rate-limit keys.                                                        *)
(***************************************************************************)
\* the client addresses get_remote_address reports
Addrs == { <<"10", "0", "0", "10">>, <<"10", "0", "0", "20">> }

\* f"{prefix}:{value}"
Key(prefix, value) == [prefix |-> prefix, value |-> value]

NoKey == Key("", <<>>)

\* str | None
NoBearer == [some |-> FALSE, tok |-> NoToken]
Bearer(tok) == [some |-> TRUE, tok |-> tok]

\* _get_bearer_token, and the same comparing the scheme without lower()
get_bearer_token_case_sensitive(hdr) ==
    IF ~hdr.present THEN NoBearer
    ELSE IF hdr.scheme # "Bearer" \/ hdr.param = EmptyToken THEN NoBearer
    ELSE Bearer(hdr.param)

get_bearer_token(hdr) ==
    IF ~hdr.present THEN NoBearer
    ELSE IF Lower(hdr.scheme) # "bearer" \/ hdr.param = EmptyToken THEN NoBearer
    ELSE Bearer(hdr.param)

rate_limit_ip_key(addr) == Key("ip", addr)

\* the key function, and one that keys every request by its address
rate_limit_user_or_ip_key_ip_only(hdr, addr, t) ==
    [raised |-> "", key |-> rate_limit_ip_key(addr)]

rate_limit_user_or_ip_key(hdr, addr, t) ==
    LET token == get_bearer_token(hdr)
        r == verify_token(token.tok, t)
        payload == r.value
    IN  IF ~token.some THEN [raised |-> "", key |-> rate_limit_ip_key(addr)]
        ELSE IF r.raised # "" THEN [raised |-> r.raised, key |-> NoKey]
        ELSE IF payload # None /\ payload.sub.t = "str" /\ payload.sub.s # <<>>
        THEN [raised |-> "", key |-> Key("user", payload.sub.s)]
        ELSE [raised |-> "", key |-> rate_limit_ip_key(addr)]

(***************************************************************************)
(* KeySpec: a request (Authorization header, client address) arrives at    *)
(* some time and its rate-limit key is derived.                            *)
(***************************************************************************)
KeySubs ==
    { StrSub(StrOfInt(1)), StrSub(<<>>), StrSub(<<"a", "b", "c">>), IntSub(1), NoSub }

\* tokens the server signed at time 0, and tokens it did not sign
KeyTokens ==
    { create_access_token([sub |-> s], NoDelta, 0) : s \in KeySubs } \cup ForgedTokens

KeyHeaders ==
    { NoHeader }
    \cup { Header(scheme, tok) : scheme \in {"Bearer", "bearer", "Basic"}, tok \in KeyTokens }

KCall(op, hdr, addr, at, raised, key) ==
    [op |-> op, hdr |-> hdr, addr |-> addr, at |-> at, raised |-> raised, key |-> key]

KInit == klast = KCall("init", NoHeader, <<>>, 0, "", NoKey)

KeyInputs ==
    /\ now \in 0..MaxTime
    /\ issued = {}
    /\ klast \in { KCall("input", hdr, addr, now, "", NoKey) :
                     hdr \in KeyHeaders, addr \in Addrs }

RateLimitKeyStep ==
    /\ klast.op = "input"
    /\ LET r == rate_limit_user_or_ip_key(klast.hdr, klast.addr, now)
       IN  klast' = KCall("rate_limit_user_or_ip_key", klast.hdr, klast.addr, now,
                          r.raised, r.key)
    /\ UNCHANGED <<users, nextId, now, issued, last, tlast, hlast, procs,
                   slast, storage, hits, xlast, services>>

(***************************************************************************)
(* The limiter.  Limiter(...) is built without a strategy, so slowapi uses *)
(* the fixed-window strategy of `limits`: the first hit of a (limit, key)  *)
(* pair opens a window of the limit's length, every hit in the window is   *)
(* counted, and the counter is dropped when the window expires.            *)
(***************************************************************************)
MaxSleeps == 2          \* times the clock is moved forward
SleepSeconds == 30      \* by this many seconds
MaxHits == 5            \* hits recorded in the history of LimiterSpec
MaxRequests == 7        \* requests of ExtractSpec that reach the limiter

\* "<amount>/minute"
Limit(name, amount, per) == [name |-> name, amount |-> amount, per |-> per]

AUTH_DELETE_RATE_LIMIT == Limit("AUTH_DELETE_RATE_LIMIT", 2, 60)
INTEREST_EXTRACT_RATE_LIMIT == Limit("INTEREST_EXTRACT_RATE_LIMIT", 5, 60)

Limits == { AUTH_DELETE_RATE_LIMIT, INTEREST_EXTRACT_RATE_LIMIT }

\* the length of a limit's window, in ticks
Window(limit) == limit.per * TicksPerSecond

UserKeys == { Key("user", StrOfInt(i)) : i \in 1..(MaxUsers + 1) }

AllKeys == UserKeys \cup { rate_limit_ip_key(a) : a \in Addrs }

Bucket(limit, key) == <<limit.name, key>>

Buckets == { Bucket(l, k) : l \in Limits, k \in AllKeys }

NoCounter == [count |-> 0, expires |-> 0]

\* storage.incr(key, expiry): an expired counter is dropped first, and the
\* hit that makes the count 1 sets the expiry
storage_incr(S, b, expiry, t) ==
    LET cur == IF S[b].expires <= t THEN NoCounter ELSE S[b]
        count == cur.count + 1
    IN  [S EXCEPT ![b] = [count |-> count,
                          expires |-> IF count = 1 THEN t + expiry ELSE cur.expires]]

\* FixedWindowRateLimiter.hit: incr(...) <= limit.amount
limiter_hit(S, limit, key, t) ==
    LET S2 == storage_incr(S, Bucket(limit, key), Window(limit), t)
    IN  [storage |-> S2, ok |-> S2[Bucket(limit, key)].count <= limit.amount]

\* the counter of (limit, key) stands at the limit at time t
OverBudget(S, limit, key, t) ==
    /\ Bucket(limit, key) \in DOMAIN S
    /\ S[Bucket(limit, key)].expires > t
    /\ S[Bucket(limit, key)].count >= limit.amount

\* history of a bucket: its hits in order, and the address of the first one
NoHistory == [log |-> <<>>, addr0 |-> <<>>]

Record(H, b, t, ok, addr) ==
    [H EXCEPT ![b] = [log |-> Append(H[b].log, [at |-> t, ok |-> ok]),
                      addr0 |-> IF H[b].log = <<>> THEN addr ELSE H[b].addr0]]

RECURSIVE TotalHits(_, _)
TotalHits(H, B) ==
    IF B = {} THEN 0
    ELSE LET b == CHOOSE b \in B : TRUE
         IN  Len(H[b].log) + TotalHits(H, B \ {b})

LimiterInit ==
    /\ storage = [b \in Buckets |-> NoCounter]
    /\ hits = [b \in Buckets |-> NoHistory]

(***************************************************************************)
(* LimiterSpec: hits on two keys under two named limits, and a clock.      *)
(***************************************************************************)
LimiterKeys == { Key("user", StrOfInt(1)), rate_limit_ip_key(<<"10", "0", "0", "10">>) }

LimiterHit(limit, key) ==
    LET h == limiter_hit(storage, limit, key, now)
    IN  /\ TotalHits(hits, Buckets) < MaxHits
        /\ storage' = h.storage
        /\ hits' = Record(hits, Bucket(limit, key), now, h.ok, <<>>)
        /\ UNCHANGED <<users, nextId, now, issued, last, tlast, hlast, procs,
                       slast, klast, xlast, services>>

LimiterHitStep == \E limit \in Limits, key \in LimiterKeys : LimiterHit(limit, key)

Sleep ==
    /\ now < MaxSleeps * SleepSeconds * TicksPerSecond
    /\ now' = now + SleepSeconds * TicksPerSecond
    /\ UNCHANGED <<users, nextId, issued, last, tlast, hlast, procs, admission, services>>

(***************************************************************************)
(* POST /interests/extract.  FastAPI solves the route's dependencies       *)
(* (bearer token, database session, current user, request body) and then   *)
(* calls the endpoint, which is the wrapper slowapi's @limit put around     *)
(* the handler: the wrapper derives the key and hits the limiter, and only *)
(* then runs the handler body.                                             *)
(***************************************************************************)
\* InterestExtractionRequest: min_length=1, max_length=500
validate_prompt_length(prompt) == Len(prompt) >= 1 /\ Len(prompt) <= 500

request_validation_exception_handler ==
    Resp(422, map_status_to_error(422), "Request validation failed", "")

rate_limit_exception_handler ==
    Resp(429, map_status_to_error(429), "Too many requests", "")

\* what llm_client.extract_interests does: a result, or an LLMServiceError
LLMOutcome(exc, code, message) == [exc |-> exc, code |-> code, message |-> message]

LLMOutcomes ==
    { LLMOutcome("", "", ""),
      LLMOutcome("LLMUnavailableError", "llm_unavailable",
                 "LLM service unreachable. Try again shortly."),
      LLMOutcome("LLMAuthenticationError", "llm_auth_failed",
                 "LLM authentication failed."),
      LLMOutcome("LLMInvalidResponseError", "llm_response_invalid",
                 "LLM returned invalid JSON."),
      LLMOutcome("LLMServiceError", "llm_error", "LLM request failed. Try again later.") }

\* the call the LLM client received
NoLLMCall == [called |-> FALSE, text |-> <<>>]
LLMCall(text) == [called |-> TRUE, text |-> text]

\* extract_interests_from_prompt(prompt, llm_client)
extract_interests_from_prompt(prompt, outcome) ==
    [llm |-> LLMCall(prompt), exc |-> outcome]

Handled(resp, llm, steps) == [resp |-> resp, llm |-> llm, steps |-> steps]

\* the body of extract_interests, and the same handing the request's own
\* text to the LLM
extract_interests_unsanitized(prompt, outcome) ==
    LET san == sanitize_prompt(prompt)
        r == extract_interests_from_prompt(prompt, outcome)
        status_code == IF r.exc.exc \in {"LLMAuthenticationError", "LLMInvalidResponseError"}
                       THEN 502 ELSE 503
    IN  IF san.raised # ""
        THEN Handled(http_exception_handler(
                         build_http_error(400, san.code, san.message, "")),
                     NoLLMCall, <<"sanitize_prompt">>)
        ELSE IF r.exc.exc # ""
        THEN Handled(http_exception_handler(
                         build_http_error(status_code, r.exc.code, r.exc.message, "")),
                     r.llm, <<"sanitize_prompt", "llm_client">>)
        ELSE Handled(Resp(200, "", "", ""), r.llm, <<"sanitize_prompt", "llm_client">>)

extract_interests(prompt, outcome) ==
    LET san == sanitize_prompt(prompt)
        r == extract_interests_from_prompt(san.value, outcome)
        status_code == IF r.exc.exc \in {"LLMAuthenticationError", "LLMInvalidResponseError"}
                       THEN 502 ELSE 503
    IN  IF san.raised # ""
        THEN Handled(http_exception_handler(
                         build_http_error(400, san.code, san.message, "")),
                     NoLLMCall, <<"sanitize_prompt">>)
        ELSE IF r.exc.exc # ""
        THEN Handled(http_exception_handler(
                         build_http_error(status_code, r.exc.code, r.exc.message, "")),
                     r.llm, <<"sanitize_prompt", "llm_client">>)
        ELSE Handled(Resp(200, "", "", ""), r.llm, <<"sanitize_prompt", "llm_client">>)

\* the calls made while Depends(get_current_user) is solved
current_user_steps(hdr, U, t) ==
    LET tok == oauth2_scheme(hdr)
        payload == verify_token(tok.value, t).value
    IN  IF ~tok.ok THEN <<"oauth2_scheme">>
        ELSE IF payload = None \/ payload.sub.t # "str"
                \/ IntParse(payload.sub.s).raised # ""
        THEN <<"oauth2_scheme", "get_db", "verify_token">>
        ELSE <<"oauth2_scheme", "get_db", "verify_token", "select_user">>

\* one request through the route: the outcome, the store after it, the steps
Served(resp, S, user, limited, admitted, llm, steps) ==
    [resp |-> resp, storage |-> S, user |-> user, limited |-> limited,
     admitted |-> admitted, llm |-> llm, steps |-> steps]

extract_route(hdr, addr, prompt, outcome, U, S, t) ==
    LET cu == current_user_dependency(hdr, U, t)
        deps == current_user_steps(hdr, U, t)
        key == rate_limit_user_or_ip_key(hdr, addr, t)
        h == limiter_hit(S, INTEREST_EXTRACT_RATE_LIMIT, key.key, t)
        limit == <<"rate_limit_user_or_ip_key", "limiter_hit">>
        body == extract_interests(prompt, outcome)
    IN  IF ~cu.ok
        THEN Served(http_exception_handler(cu.exc), S, NoUser, FALSE, FALSE,
                    NoLLMCall, deps)
        ELSE IF ~validate_prompt_length(prompt)
        THEN Served(request_validation_exception_handler, S, cu.value, FALSE, FALSE,
                    NoLLMCall, deps \o <<"request_body">>)
        ELSE IF key.raised # ""
        THEN Served(unhandled_exception_handler, S, cu.value, FALSE, FALSE,
                    NoLLMCall, deps \o <<"request_body", "rate_limit_user_or_ip_key">>)
        ELSE IF ~h.ok
        THEN Served(rate_limit_exception_handler, h.storage, cu.value, TRUE, FALSE,
                    NoLLMCall, deps \o <<"request_body">> \o limit)
        ELSE Served(body.resp, h.storage, cu.value, TRUE, TRUE,
                    body.llm, deps \o <<"request_body">> \o limit \o body.steps)

(***************************************************************************)
(* ExtractSpec: the registered users and a deleted one hold tokens that    *)
(* outlive the run; requests of every kind arrive from two addresses.      *)
(***************************************************************************)
SpecPromptClean == <<"j", "\n", Backtick, "x", Backtick, "k">>
SpecPromptInjection == <<"j", "a", "i", "l", "b", "r", "e", "a", "k">>

ExtractPrompts == { <<>>, SpecPromptClean, SpecPromptInjection }

\* a lifetime longer than the run
LongDelta == Delta((MaxSleeps * SleepSeconds + 60) * TicksPerSecond)

ExtractUsers ==
    { User(i, IF i = 1 THEN "a@example.com" ELSE "b@example.com",
           pwd_context_hash(Pw("a", 12, 2, 0), 1)) : i \in 1..MaxUsers }

ExtractTokens ==
    { create_access_token([sub |-> StrSub(StrOfInt(i))], LongDelta, 0) :
        i \in 1..(MaxUsers + 1) }

ExtractHeaders ==
    { NoHeader }
    \cup { Header("Bearer", tok) : tok \in ExtractTokens }
    \cup { Header("Bearer", [kind |-> "jwt", key |-> "wrong_secret", alg |-> Algorithm,
                             sub |-> StrSub(StrOfInt(1)), exp |-> LongDelta.d]) }

XCall(op, hdr, addr, prompt, at, over, prior, r) ==
    [op |-> op, hdr |-> hdr, addr |-> addr, prompt |-> prompt, at |-> at,
     over |-> over, prior |-> prior, user |-> r.user, limited |-> r.limited,
     admitted |-> r.admitted, llm |-> r.llm, steps |-> r.steps, resp |-> r.resp]

XInit ==
    xlast = XCall("init", NoHeader, <<>>, <<>>, 0, FALSE, NoHistory,
                  Served(NoResp, <<>>, NoUser, FALSE, FALSE, NoLLMCall, <<>>))

ExtractInputs ==
    /\ users = ExtractUsers
    /\ nextId = MaxUsers + 2
    /\ now = 0
    /\ issued = {}

\* the history of the requests user u made that reached the limiter
SubjectBucket(u) == Bucket(INTEREST_EXTRACT_RATE_LIMIT, Key("user", StrOfInt(u.id)))

Extract(hdr, addr, prompt, outcome) ==
    \E r \in { extract_route(hdr, addr, prompt, outcome, users, storage, now) } :
    LET key == rate_limit_user_or_ip_key(hdr, addr, now).key
        over == OverBudget(storage, INTEREST_EXTRACT_RATE_LIMIT, key, now)
        prior == IF r.user = NoUser THEN NoHistory ELSE hits[SubjectBucket(r.user)]
    IN  /\ r.limited => TotalHits(hits, Buckets) < MaxRequests
        /\ storage' = r.storage
        /\ hits' = IF r.limited
                   THEN Record(hits, SubjectBucket(r.user), now, r.admitted, addr)
                   ELSE hits
        /\ xlast' = XCall("extract", hdr, addr, prompt, now, over, prior, r)
        /\ UNCHANGED <<users, nextId, now, issued, last, tlast, hlast, procs,
                       slast, klast, services>>

\* the LLM's answer matters only to a request whose prompt reaches it
OutcomesFor(prompt) ==
    IF sanitize_prompt(prompt).raised = "" THEN LLMOutcomes ELSE { LLMOutcome("", "", "") }

ExtractStep ==
    \E hdr \in ExtractHeaders, addr \in Addrs, prompt \in ExtractPrompts :
        \E outcome \in OutcomesFor(prompt) : Extract(hdr, addr, prompt, outcome)

(***************************************************************************)
(* BudgetSpec: the registered users send well-formed requests with their   *)
(* tokens from two addresses while the clock moves.                        *)
(***************************************************************************)
BudgetHeaders ==
    { Header("Bearer", create_access_token([sub |-> StrSub(StrOfInt(u.id))], LongDelta, 0)) :
        u \in ExtractUsers }

BudgetRequestStep ==
    \E hdr \in BudgetHeaders, addr \in Addrs :
        Extract(hdr, addr, SpecPromptClean, LLMOutcome("", "", ""))


(***************************************************************************)
(* The limiter's in-memory fallback.  Limiter(...) is built with           *)
(* in_memory_fallback_enabled=True and in_memory_fallback=                 *)
(* [DEFAULT_RATE_LIMIT].  A storage error while a request is checked sets  *)
(* _storage_dead and checks the request again; while _storage_dead holds   *)
(* the limits checked are the in_memory_fallback ones, keyed by the        *)
(* limiter's key_func and counted in a MemoryStorage, until a probe of the *)
(* backend succeeds.                                                       *)
(***************************************************************************)
MaxFallbackRequests == 6    \* requests of FallbackSpec

DEFAULT_RATE_LIMIT == Limit("DEFAULT_RATE_LIMIT", 120, 60)
AUTH_REGISTER_RATE_LIMIT == Limit("AUTH_REGISTER_RATE_LIMIT", 5, 60)

\* @limit(limit, key_func=key_func) on an endpoint
Route(name, limit, key_func) == [name |-> name, limit |-> limit, key_func |-> key_func]

Routes ==
    { Route("register", AUTH_REGISTER_RATE_LIMIT, "rate_limit_ip_key"),
      Route("delete_me", AUTH_DELETE_RATE_LIMIT, "rate_limit_user_or_ip_key") }

\* Limiter(key_func=..., in_memory_fallback=[...])
limiter_key_func == "rate_limit_user_or_ip_key"
in_memory_fallback == { DEFAULT_RATE_LIMIT }

call_key_func(key_func, hdr, addr, t) ==
    IF key_func = "rate_limit_ip_key" THEN rate_limit_ip_key(addr)
    ELSE rate_limit_user_or_ip_key(hdr, addr, t).key

\* a counter is named by the limit, the endpoint (the limit's scope) and the key
ScopedBucket(limit, route, key) == <<limit.name, route.name, key>>

FallbackKeys == { Key("user", StrOfInt(1)) } \cup { rate_limit_ip_key(a) : a \in Addrs }

RouteBuckets == { ScopedBucket(r.limit, r, k) : r \in Routes, k \in FallbackKeys }

MemoryBuckets ==
    { ScopedBucket(l, r, k) : l \in in_memory_fallback, r \in Routes, k \in FallbackKeys }

\* __evaluate_limits over the limits chosen, with the storage chosen
evaluate_limits(S, limits, route, key, t) ==
    LET l == CHOOSE l \in limits : TRUE
        S2 == storage_incr(S, ScopedBucket(l, route, key), Window(l), t)
    IN  [storage |-> S2, ok |-> S2[ScopedBucket(l, route, key)].count <= l.amount]

Checked(ok, via, S, M, dead) ==
    [ok |-> ok, via |-> via, storage |-> S, memory |-> M, dead |-> dead]

\* the limits of a dead storage: in_memory_fallback, on the fallback limiter
check_fallback_limits(route, hdr, addr, S, M, t) ==
    LET key == call_key_func(limiter_key_func, hdr, addr, t)
        e == evaluate_limits(M, in_memory_fallback, route, key, t)
    IN  Checked(e.ok, "memory", S, e.storage, TRUE)

\* the limits of the route, on the storage of storage_uri
check_route_limits(route, hdr, addr, S, M, t) ==
    LET key == call_key_func(route.key_func, hdr, addr, t)
        e == evaluate_limits(S, {route.limit}, route, key, t)
    IN  Checked(e.ok, "storage", e.storage, M, FALSE)

\* Limiter._check_request_limit for a decorated route; probe is the answer of
\* __should_check_backend(), up says whether the storage answers
check_request_limit(route, hdr, addr, S, M, dead, probe, up, t) ==
    IF dead
    THEN IF probe /\ up
         THEN check_route_limits(route, hdr, addr, S, M, t)
         ELSE check_fallback_limits(route, hdr, addr, S, M, t)
    ELSE IF up
         THEN check_route_limits(route, hdr, addr, S, M, t)
         ELSE check_fallback_limits(route, hdr, addr, S, M, t)

(***************************************************************************)
(* FallbackSpec: one instance serves requests to two decorated routes,     *)
(* all within one minute, while the counter store goes away and comes back.*)
(***************************************************************************)
FallbackHeaders ==
    { NoHeader,
      Header("Bearer", create_access_token([sub |-> StrSub(StrOfInt(1))], LongDelta, 0)) }

FallbackAddrs == { <<"10", "0", "0", "10">> }

NoRequests == <<>>

\* a request to a route, the state of the store when it came, the requests of
\* its route and key admitted in the window before it, and the limiter's answer
FCall(op, route, key, at, up, prior, via, ok) ==
    [op |-> op, route |-> route, key |-> key, at |-> at, up |-> up, prior |-> prior,
     via |-> via, ok |-> ok]

FInit ==
    /\ reachable = TRUE
    /\ storage_dead = FALSE
    /\ memory = [b \in MemoryBuckets |-> NoCounter]
    /\ fhits = [b \in RouteBuckets |-> NoRequests]
    /\ flast = FCall("init", "", NoKey, 0, TRUE, 0, "", TRUE)

\* the requests in history h admitted less than a window of the limit before t
AdmittedInWindow(h, limit, t) ==
    Cardinality({ j \in 1..Len(h) : h[j].ok /\ h[j].at > t - Window(limit) })

RECURSIVE TotalRequests(_, _)
TotalRequests(H, B) ==
    IF B = {} THEN 0
    ELSE LET b == CHOOSE b \in B : TRUE
         IN  Len(H[b]) + TotalRequests(H, B \ {b})

LimitedRequest(route, hdr, addr, probe) ==
    \E c \in { check_request_limit(route, hdr, addr, storage, memory, storage_dead,
                                   probe, reachable, now) } :
    LET key == call_key_func(route.key_func, hdr, addr, now)
        b == ScopedBucket(route.limit, route, key)
    IN  /\ TotalRequests(fhits, RouteBuckets) < MaxFallbackRequests
        /\ storage' = c.storage
        /\ memory' = c.memory
        /\ storage_dead' = c.dead
        /\ fhits' = [fhits EXCEPT ![b] = Append(@, [at |-> now, ok |-> c.ok])]
        /\ flast' = FCall("request", route.name, key, now, reachable,
                          AdmittedInWindow(fhits[b], route.limit, now), c.via, c.ok)
        /\ UNCHANGED <<users, nextId, now, issued, last, tlast, hlast, procs,
                       slast, klast, hits, xlast, reachable, llast, tables, vlast, runtime>>

LimitedRequestStep ==
    \E route \in Routes, hdr \in FallbackHeaders, addr \in FallbackAddrs, probe \in BOOLEAN :
        LimitedRequest(route, hdr, addr, probe)

StoreGoesDown ==
    /\ reachable
    /\ reachable' = FALSE
    /\ UNCHANGED <<users, nextId, now, issued, last, tlast, hlast, procs, admission,
                   storage_dead, memory, fhits, flast, llast, tables, vlast, runtime>>

StoreComesBack ==
    /\ ~reachable
    /\ reachable' = TRUE
    /\ UNCHANGED <<users, nextId, now, issued, last, tlast, hlast, procs, admission,
                   storage_dead, memory, fhits, flast, llast, tables, vlast, runtime>>
(***************************************************************************)
(* The LLM client.  OpenAIClient.extract_interests asks for a chat         *)
(* completion, takes the content of its first choice, parses it as JSON    *)
(* and builds an InterestExtractionResult from it; every exception on the  *)
(* way is turned into an LLMServiceError by _handle_errors.                *)
(***************************************************************************)
MaxItems == 3       \* labels in a list of interests
MaxItemLen == 2     \* characters of a label

\* the classes of an exception class, itself included
Bases(cls) ==
    {cls} \cup
    CASE cls = "APITimeoutError" -> {"APIConnectionError", "APIError"}
      [] cls = "APIConnectionError" -> {"APIError"}
      [] cls = "RateLimitError" -> {"APIStatusError", "APIError"}
      [] cls = "AuthenticationError" -> {"APIStatusError", "APIError"}
      [] cls = "InternalServerError" -> {"APIStatusError", "APIError"}
      [] cls = "JSONDecodeError" -> {"ValueError"}
      [] cls = "ValidationError" -> {"ValueError"}
      [] cls = "IndexError" -> {"LookupError"}
      [] OTHER -> {}

isinstance(cls, classes) == Bases(cls) \cap classes # {}

\* _handle_errors(error); text is str(error)
handle_errors(error, text) ==
    IF isinstance(error, {"APIConnectionError"})
    THEN LLMOutcome("LLMUnavailableError", "llm_unavailable",
                    "LLM service unreachable. Try again shortly.")
    ELSE IF isinstance(error, {"APITimeoutError"})
    THEN LLMOutcome("LLMUnavailableError", "llm_unavailable",
                    "LLM request timed out. Try again.")
    ELSE IF isinstance(error, {"RateLimitError"})
    THEN LLMOutcome("LLMUnavailableError", "llm_unavailable",
                    "LLM rate limit exceeded. Try again later.")
    ELSE IF isinstance(error, {"AuthenticationError"})
    THEN LLMOutcome("LLMAuthenticationError", "llm_auth_failed",
                    "LLM authentication failed.")
    ELSE IF isinstance(error, {"APIError"})
    THEN LLMOutcome("LLMUnavailableError", "llm_unavailable",
                    "LLM service error. Try again later.")
    ELSE IF isinstance(error, {"IndexError", "AttributeError"})
    THEN LLMOutcome("LLMInvalidResponseError", "llm_response_invalid",
                    "LLM returned an unexpected response.")
    ELSE IF isinstance(error, {"JSONDecodeError"})
    THEN LLMOutcome("LLMInvalidResponseError", "llm_response_invalid",
                    "LLM returned invalid JSON.")
    ELSE IF isinstance(error, {"ValidationError"})
    THEN LLMOutcome("LLMInvalidResponseError", "llm_response_invalid",
                    "LLM response did not match expected format.")
    ELSE IF isinstance(error, {"ValueError"})
    THEN LLMOutcome("LLMInvalidResponseError", "llm_response_invalid", text)
    ELSE LLMOutcome("LLMServiceError", "llm_error", "LLM request failed. Try again later.")

\* str.strip()
RECURSIVE str_strip(_)
str_strip(s) ==
    IF s # <<>> /\ Head(s) \in Whitespace THEN str_strip(Tail(s))
    ELSE IF s # <<>> /\ s[Len(s)] \in Whitespace THEN str_strip(SubSeq(s, 1, Len(s) - 1))
    ELSE s

\* str.casefold()
str_casefold(s) == [i \in 1..Len(s) |-> IgnoreCase(s[i])]

\* the loop of normalize_interests over the items left
RECURSIVE normalize_loop(_, _, _)
normalize_loop(value, normalized, seen) ==
    IF value = <<>> THEN normalized
    ELSE LET cleaned == str_strip(Head(value))
             normalized_key == str_casefold(cleaned)
         IN  IF cleaned = <<>> THEN normalize_loop(Tail(value), normalized, seen)
             ELSE IF normalized_key \in seen
             THEN normalize_loop(Tail(value), normalized, seen)
             ELSE normalize_loop(Tail(value), Append(normalized, cleaned),
                                 seen \cup {normalized_key})

\* InterestExtractionResult.normalize_interests, and the same comparing the
\* labels as they are written
normalize_interests_case_sensitive(value) ==
    LET RECURSIVE loop(_, _, _)
        loop(v, normalized, seen) ==
            IF v = <<>> THEN normalized
            ELSE LET cleaned == str_strip(Head(v))
                 IN  IF cleaned = <<>> \/ cleaned \in seen
                     THEN loop(Tail(v), normalized, seen)
                     ELSE loop(Tail(v), Append(normalized, cleaned), seen \cup {cleaned})
    IN  loop(value, <<>>, {})

normalize_interests(value) == normalize_loop(value, <<>>, {})

\* InterestExtractionResult(add_interests=..., remove_interests=...)
InterestExtractionResult(add, remove) ==
    [add_interests |-> normalize_interests(add),
     remove_interests |-> normalize_interests(remove)]

NoExtraction == [add_interests |-> <<>>, remove_interests |-> <<>>]

\* what the completion endpoint does: it raises an API error, or it answers
\* with a completion of some shape
LLMReply(error, shape, add, remove) ==
    [error |-> error, shape |-> shape, add |-> add, remove |-> remove]

\* the exception, if any, met between the request and the result
completion_error(reply) ==
    IF reply.error # "" THEN [cls |-> reply.error, text |-> ""]
    ELSE CASE reply.shape = "no_choices" -> [cls |-> "IndexError", text |-> ""]
           [] reply.shape = "no_message" -> [cls |-> "AttributeError", text |-> ""]
           [] reply.shape = "no_content" ->
                  [cls |-> "ValueError", text |-> "Empty response from OpenAI"]
           [] reply.shape = "not_json" -> [cls |-> "JSONDecodeError", text |-> ""]
           [] reply.shape = "json_array" -> [cls |-> "TypeError", text |-> ""]
           [] reply.shape = "wrong_fields" -> [cls |-> "ValidationError", text |-> ""]
           [] OTHER -> [cls |-> "", text |-> ""]

\* OpenAIClient.extract_interests
openai_extract_interests(reply) ==
    LET e == completion_error(reply)
    IN  IF e.cls # ""
        THEN [exc |-> handle_errors(e.cls, e.text), result |-> NoExtraction]
        ELSE [exc |-> LLMOutcome("", "", ""),
              result |-> InterestExtractionResult(reply.add, reply.remove)]

(***************************************************************************)
(* LlmSpec: an authenticated request with a clean prompt reaches the LLM,  *)
(* which fails or answers in one of the ways above.                        *)
(***************************************************************************)
ItemChars == {"a", "A", " "}

RECURSIVE SeqsUpTo(_, _)
SeqsUpTo(S, n) ==
    IF n = 0 THEN { <<>> }
    ELSE SeqsUpTo(S, n - 1)
         \cup { Append(s, c) : s \in { t \in SeqsUpTo(S, n - 1) : Len(t) = n - 1 }, c \in S }

Items == SeqsUpTo(ItemChars, MaxItemLen)

ItemLists == SeqsUpTo(Items, MaxItems)

ApiErrors ==
    { "APIConnectionError", "APITimeoutError", "RateLimitError", "AuthenticationError",
      "InternalServerError" }

Shapes == { "no_choices", "no_message", "no_content", "not_json", "json_array", "wrong_fields" }

LLMReplies ==
    { LLMReply(e, "", <<>>, <<>>) : e \in ApiErrors }
    \cup { LLMReply("", s, <<>>, <<>>) : s \in Shapes }
    \cup { LLMReply("", "object", add, << <<" ", "a">>, <<"A">> >>) : add \in ItemLists }

LCall(op, reply, outcome, result, resp, again) ==
    [op |-> op, reply |-> reply, outcome |-> outcome, result |-> result, resp |-> resp,
     again |-> again]

LInit ==
    llast = LCall("init", LLMReply("", "", <<>>, <<>>), LLMOutcome("", "", ""),
                  NoExtraction, NoResp, NoExtraction)

LlmInputs ==
    llast \in { LCall("input", reply, LLMOutcome("", "", ""), NoExtraction, NoResp,
                      NoExtraction) : reply \in LLMReplies }

\* the handler body of POST /interests/extract with this answer of the LLM
LlmExtractStep ==
    /\ llast.op = "input"
    /\ LET r == openai_extract_interests(llast.reply)
           h == extract_interests(SpecPromptClean, r.exc)
       IN  llast' = LCall("extract_interests", llast.reply, r.exc, r.result, h.resp,
                          NoExtraction)
    /\ UNCHANGED <<users, nextId, now, issued, last, tlast, hlast, procs, admission,
                   fallback, tables, vlast, runtime>>

\* the lists of a result given to the validator once more
NormalizeAgainStep ==
    /\ llast.op = "extract_interests"
    /\ llast.outcome.exc = ""
    /\ llast' = [llast EXCEPT !.op = "normalize_interests",
                              !.again = InterestExtractionResult(llast.result.add_interests,
                                                                 llast.result.remove_interests)]
    /\ UNCHANGED <<users, nextId, now, issued, last, tlast, hlast, procs, admission,
                   fallback, tables, vlast, runtime>>
(***************************************************************************)
(* The tables of the rows a user owns.  interests.user_id is               *)
(* ForeignKey("users.id"), newsletters.user_id is ForeignKey("users.id",   *)
(* ondelete="CASCADE"), content_items.newsletter_id is                     *)
(* ForeignKey("newsletters.id"); the relationships declare no cascade and  *)
(* delete_user issues a DELETE statement, so what happens to the rows that *)
(* refer to a deleted row is what the foreign keys say.                    *)
(***************************************************************************)
MaxRows == 2        \* rows of each of the tables interests, newsletters, content_items

Interest(id, user_id) == [id |-> id, user_id |-> user_id]
Newsletter(id, user_id) == [id |-> id, user_id |-> user_id]
ContentItem(id, newsletter_id) == [id |-> id, newsletter_id |-> newsletter_id]

\* ForeignKey(references, ondelete=...) on a column; without ondelete the
\* constraint is ON DELETE NO ACTION
ForeignKey(column, references, ondelete) ==
    [column |-> column, references |-> references, ondelete |-> ondelete]

Interest_user_id == ForeignKey("user_id", "users.id", "NO ACTION")
Newsletter_user_id == ForeignKey("user_id", "users.id", "CASCADE")
ContentItem_newsletter_id == ForeignKey("newsletter_id", "newsletters.id", "NO ACTION")

Database(U, I, N, C) == [users |-> U, interests |-> I, newsletters |-> N, content_items |-> C]

Ids(rows) == { r.id : r \in rows }

\* the rows whose foreign key refers to one of the ids
Referring(rows, fk, ids) == { r \in rows : r[fk.column] \in ids }

\* the rows the storage deletes with their parents, and whether rows that
\* stay would be left referring to deleted parents
Cascaded(rows, fk, ids) == IF fk.ondelete = "CASCADE" THEN Referring(rows, fk, ids) ELSE {}

Restricts(rows, fk, ids) == fk.ondelete # "CASCADE" /\ Referring(rows, fk, ids) # {}

\* session.execute(delete(User).where(User.id == user_id))
delete_user_statement(DB, user_id) ==
    LET gone == Ids(DB.users) \ Ids(delete_user_rows(DB.users, user_id))
        newsletters_gone == Cascaded(DB.newsletters, Newsletter_user_id, gone)
        interests_gone == Cascaded(DB.interests, Interest_user_id, gone)
        items_gone == Cascaded(DB.content_items, ContentItem_newsletter_id,
                               Ids(newsletters_gone))
    IN  IF \/ Restricts(DB.interests, Interest_user_id, gone)
           \/ Restricts(DB.newsletters, Newsletter_user_id, gone)
           \/ Restricts(DB.content_items, ContentItem_newsletter_id, Ids(newsletters_gone))
        THEN [raised |-> "IntegrityError", db |-> DB]
        ELSE [raised |-> "",
              db |-> Database(delete_user_rows(DB.users, user_id),
                              DB.interests \ interests_gone,
                              DB.newsletters \ newsletters_gone,
                              DB.content_items \ items_gone)]

\* AuthService.delete_user on the four tables
delete_user_on(DB, user_id) ==
    LET d == delete_user_statement(DB, user_id)
    IN  IF d.raised # "" THEN [raised |-> d.raised, id |-> 0, db |-> DB]
        ELSE [raised |-> "", id |-> delete_user(DB.users, user_id).id, db |-> d.db]

(***************************************************************************)
(* ServiceSpec: the methods of AuthService are called one after another,   *)
(* each in a transaction that is committed when the call returns and       *)
(* rolled back when it raises.  CascadeSpec: registered users come to own  *)
(* interests, newsletters and content items, and users are deleted.        *)
(***************************************************************************)
\* texts of integrity errors of the driver, as the words in them
NotNullViolationText ==
    {"null", "value", "in", "column", "violates", "not-null", "constraint", "23502"}

InsertFaults == { {}, UniqueViolationText, {"23505"}, NotNullViolationText }

ServicePasswords == { Pw("a", 12, 2, 0), Pw("a", 73, 2, 0) }

VCall(op, email, pw, id, fault, before, exc, orig, returned) ==
    [op |-> op, email |-> email, pw |-> pw, id |-> id, fault |-> fault, before |-> before,
     exc |-> exc, orig |-> orig, returned |-> returned]

VInit ==
    /\ interests = {}
    /\ newsletters = {}
    /\ content_items = {}
    /\ vlast = VCall("init", "", NoPw, 0, {}, Database({}, {}, {}, {}), "", {}, 0)

database == Database(users, interests, newsletters, content_items)

RegisterUser(email, pw, salt, fault) ==
    LET r == register_user_on(users, email, pw, salt, nextId, fault)
    IN  /\ r.exc = "" => nextId <= MaxUsers
        /\ users' = r.users
        /\ nextId' = IF r.exc = "" THEN nextId + 1 ELSE nextId
        /\ vlast' = VCall("register_user", email, pw, 0, fault, database, r.exc, r.orig,
                          r.user.id)
        /\ UNCHANGED <<now, issued, last, tlast, hlast, procs, admission,
                       fallback, llast, tables, runtime>>

AuthenticateUser(email, pw) ==
    LET r == authenticate_user(users, email, pw)
    IN  /\ vlast' = VCall("authenticate_user", email, pw, 0, {}, database, r.exc, {},
                          r.user.id)
        /\ UNCHANGED <<users, nextId, now, issued, last, tlast, hlast, procs, admission,
                       fallback, llast, tables, runtime>>

GetUserById(id) ==
    /\ vlast' = VCall("get_user_by_id", "", NoPw, id, {}, database, "", {},
                      get_user_by_id(users, id).id)
    /\ UNCHANGED <<users, nextId, now, issued, last, tlast, hlast, procs, admission,
                   fallback, llast, tables, runtime>>

DeleteUser(id) ==
    LET d == delete_user_on(database, id)
    IN  /\ users' = d.db.users
        /\ interests' = d.db.interests
        /\ newsletters' = d.db.newsletters
        /\ content_items' = d.db.content_items
        /\ vlast' = VCall("delete_user", "", NoPw, id, {}, database, d.raised, {}, d.id)
        /\ UNCHANGED <<nextId, now, issued, last, tlast, hlast, procs, admission,
                       fallback, llast, runtime>>

\* rows added by the rest of the application: INSERTs the foreign keys accept
InsertInterest(id, user_id) ==
    /\ id \notin Ids(interests)
    /\ user_id \in Ids(users)
    /\ interests' = interests \cup { Interest(id, user_id) }
    /\ UNCHANGED <<users, nextId, now, issued, last, tlast, hlast, procs, admission,
                   fallback, llast,
                   newsletters, content_items, vlast, runtime>>

InsertNewsletter(id, user_id) ==
    /\ id \notin Ids(newsletters)
    /\ user_id \in Ids(users)
    /\ newsletters' = newsletters \cup { Newsletter(id, user_id) }
    /\ UNCHANGED <<users, nextId, now, issued, last, tlast, hlast, procs, admission,
                   fallback, llast,
                   interests, content_items, vlast, runtime>>

InsertContentItem(id, newsletter_id) ==
    /\ id \notin Ids(content_items)
    /\ newsletter_id \in Ids(newsletters)
    /\ content_items' = content_items \cup { ContentItem(id, newsletter_id) }
    /\ UNCHANGED <<users, nextId, now, issued, last, tlast, hlast, procs, admission,
                   fallback, llast,
                   interests, newsletters, vlast, runtime>>

RegisterUserStep ==
    \E email \in Emails, pw \in ServicePasswords, salt \in Salts, fault \in InsertFaults :
        RegisterUser(email, pw, salt, fault)

AuthenticateUserStep == \E email \in Emails, pw \in ServicePasswords : AuthenticateUser(email, pw)

GetUserByIdStep == \E id \in 1..(MaxUsers + 1) : GetUserById(id)

DeleteUserStep == \E id \in 1..(MaxUsers + 1) : DeleteUser(id)

InsertInterestStep == \E id \in 1..MaxRows, user_id \in 1..MaxUsers : InsertInterest(id, user_id)

InsertNewsletterStep ==
    \E id \in 1..MaxRows, user_id \in 1..MaxUsers : InsertNewsletter(id, user_id)

InsertContentItemStep ==
    \E id \in 1..MaxRows, newsletter_id \in 1..MaxRows : InsertContentItem(id, newsletter_id)
(***************************************************************************)
(* The unit of work: get_uow and get_db_transaction open one AsyncSession  *)
(* for the request, yield it to the handler, and after the handler commit  *)
(* it or roll it back; `async with` closes the session on the way out.     *)
(***************************************************************************)
MaxUowRequests == 3     \* requests served in UowSpec

\* an AsyncSession: the rows its transaction sees, and the calls made on it
AsyncSession(dep, rows) ==
    [dep |-> dep, view |-> rows, state |-> "active", closed |-> FALSE, calls |-> <<>>]

\* raised classes that are subclasses of Exception; asyncio.CancelledError
\* is a BaseException and is not caught by `except Exception`
IsException(raised) == raised \in {"HTTPException", "OperationalError", "IntegrityError"}

\* get_db_transaction after its yield: thrown is what the handler (or a
\* dependency that exited before) raised, fault what session.commit() raises
get_db_transaction(s, thrown, fault) ==
    IF thrown = ""
    THEN IF fault = ""
         THEN [session |-> [s EXCEPT !.state = "committed", !.closed = TRUE,
                                     !.calls = <<"commit", "close">>],
               raised |-> ""]
         ELSE [session |-> [s EXCEPT !.state = "rolled_back", !.closed = TRUE,
                                     !.calls = <<"commit", "rollback", "close">>],
               raised |-> fault]
    ELSE IF IsException(thrown)
         THEN [session |-> [s EXCEPT !.state = "rolled_back", !.closed = TRUE,
                                     !.calls = <<"rollback", "close">>],
               raised |-> thrown]
         ELSE \* close() discards the transaction that is still open
              [session |-> [s EXCEPT !.state = "discarded", !.closed = TRUE,
                                     !.calls = <<"close">>],
               raised |-> thrown]

\* get_uow has the same body around the UnitOfWork it yields
get_uow(s, thrown, fault) == get_db_transaction(s, thrown, fault)

exit_dependency(s, thrown, fault) ==
    IF s.dep = "get_uow" THEN get_uow(s, thrown, fault)
    ELSE get_db_transaction(s, thrown, fault)

\* the yield-dependencies of a route, in the order FastAPI enters them
Dependencies(route) ==
    CASE route = "register"  -> <<"get_db_transaction">>
      [] route = "get_me"    -> <<"get_uow">>
      [] route = "delete_me" -> <<"get_uow", "get_db_transaction">>

UowRoutes == {"register", "get_me", "delete_me"}

CommitFaults == {"", "OperationalError"}

NoRequest ==
    [pc |-> "idle", route |-> "", sessions |-> <<>>, left |-> 0, handler |-> "",
     exc |-> "", first |-> "", before |-> {}, served |-> 0, user_id |-> 0]

UInit == uow = NoRequest

\* request start: the dependencies are entered in order; get_current_user
\* raises 401 for a user that is not stored, before later ones are entered
EnterDependencies(route, id) ==
    LET deps == Dependencies(route)
        needs_user == route \in {"get_me", "delete_me"}
        missing == needs_user /\ get_user_by_id(users, id) = NoUser
        entered == IF missing THEN <<"get_uow">> ELSE deps
    IN  /\ uow.pc \in {"idle", "done"}
        /\ uow.served < MaxUowRequests
        /\ needs_user \/ id = 1
        /\ uow' = [pc |-> IF missing THEN "exit" ELSE "handler",
                   route |-> route,
                   sessions |-> [k \in 1..Len(entered) |-> AsyncSession(entered[k], users)],
                   left |-> Len(entered),
                   handler |-> IF missing THEN "not_called" ELSE "",
                   exc |-> IF missing THEN "HTTPException" ELSE "",
                   first |-> IF missing THEN "HTTPException" ELSE "",
                   before |-> users,
                   served |-> uow.served + 1,
                   user_id |-> IF needs_user THEN id ELSE 0]
        /\ UNCHANGED <<users, nextId, now, issued, last, tlast, hlast, procs,
                       admission, fallback, llast, tables, vlast, instances, app>>

\* the path operation: its statements run in the session entered last.
\* register answers UserAlreadyExistsError with an HTTPException; a
\* cancellation can arrive at any await, before or after the statement
Handler(cancelled, wrote, email) ==
    LET k == Len(uow.sessions)
        s == uow.sessions[k]
        r == register_user_on(s.view, email, Pw("a", 12, 2, 0), 1, nextId, {})
        view == CASE uow.route = "register" -> r.users
                  [] uow.route = "delete_me" -> delete_user_rows(s.view, uow.user_id)
                  [] OTHER -> s.view
        outcome == IF cancelled THEN "CancelledError"
                   ELSE IF uow.route = "register" /\ r.exc # "" THEN "HTTPException"
                   ELSE ""
        inserted == uow.route = "register" /\ r.exc = "" /\ wrote
    IN  /\ uow.pc = "handler"
        /\ ~cancelled => wrote
        /\ inserted => nextId <= MaxUsers
        /\ uow.route # "register" => email = CHOOSE e \in Emails : TRUE
        /\ uow' = [uow EXCEPT !.pc = "exit", !.handler = outcome, !.exc = outcome,
                              !.first = outcome,
                              !.sessions[k].view = IF wrote THEN view ELSE s.view]
        /\ nextId' = IF inserted THEN nextId + 1 ELSE nextId
        /\ UNCHANGED <<users, now, issued, last, tlast, hlast, procs,
                       admission, fallback, llast, tables, vlast, instances, app>>

\* the exit stack unwinds: the dependency entered last exits first
ExitDependency(fault) ==
    LET k == uow.left
        r == exit_dependency(uow.sessions[k], uow.exc, fault)
    IN  /\ uow.pc = "exit"
        /\ k >= 1
        /\ uow.exc # "" => fault = ""
        /\ users' = IF r.session.state = "committed" THEN r.session.view ELSE users
        /\ uow' = [uow EXCEPT !.sessions[k] = r.session,
                              !.left = k - 1,
                              !.exc = r.raised,
                              !.first = IF uow.first = "" THEN r.raised ELSE uow.first,
                              !.pc = IF k = 1 THEN "done" ELSE "exit"]
        /\ UNCHANGED <<nextId, now, issued, last, tlast, hlast, procs,
                       admission, fallback, llast, tables, vlast, instances, app>>

EnterDependenciesStep ==
    \E route \in UowRoutes, id \in 1..MaxUsers : EnterDependencies(route, id)

HandlerStep ==
    \E cancelled \in BOOLEAN, wrote \in BOOLEAN, email \in Emails :
        Handler(cancelled, wrote, email)

ExitDependencyStep == \E fault \in CommitFaults : ExitDependency(fault)
(***************************************************************************)
(* Several instances of the service.  Every instance builds its Limiter    *)
(* with storage_uri=settings.rate_limit_storage_url, the one Redis URL of  *)
(* the deployment, so all of them count in the same store.  A hit is the   *)
(* store's incr script (INCRBY, and EXPIRE when the count becomes 1) run   *)
(* atomically by the store, and the instance then compares the count it    *)
(* got back with the limit's amount.                                       *)
(***************************************************************************)
NInstances == 2         \* instances of the service
MaxSharedRequests == 5  \* requests served by all instances of SharedSpec

Instances == 1..NInstances

\* Settings.build_derived_urls: redis://{redis_host}:{redis_port}/{redis_db}
rate_limit_storage_url == <<"redis", "redis_host", "redis_port", "redis_db">>

\* the store the limiter of instance i counts in, and a limiter that keeps
\* its counters in the memory of its own process
limiter_storage_per_instance(i) == <<"memory", i>>

limiter_storage(i) == rate_limit_storage_url

StoreNames == { rate_limit_storage_url } \cup { <<"memory", i>> : i \in Instances }

SharedBuckets == { Bucket(AUTH_DELETE_RATE_LIMIT, k) : k \in LimiterKeys }

\* the expiry times a window can have: it is opened at a time of the clock
WindowIds ==
    { k * SleepSeconds * TicksPerSecond + Window(AUTH_DELETE_RATE_LIMIT) : k \in 0..MaxSleeps }

NoAdmissions == [n |-> 0, by |-> {}, denied |-> 0]

Idle == [pc |-> "idle", bucket |-> <<>>, count |-> 0, window |-> 0]

IInit ==
    instances = [stores |-> [s \in StoreNames |-> [b \in SharedBuckets |-> NoCounter]],
                 proc |-> [i \in Instances |-> Idle],
                 admitted |-> [b \in SharedBuckets |-> [w \in WindowIds |-> NoAdmissions]],
                 served |-> 0]

\* storage.incr of the hit of instance i: one atomic step of the store,
\* which hands the new count back to the instance
StoreIncr(i, key) ==
    LET limit == AUTH_DELETE_RATE_LIMIT
        b == Bucket(limit, key)
        s == limiter_storage(i)
        S2 == storage_incr(instances.stores[s], b, Window(limit), now)
    IN  /\ instances.proc[i].pc = "idle"
        /\ instances.served < MaxSharedRequests
        /\ instances' = [instances EXCEPT
               !.stores[s] = S2,
               !.proc[i] = [pc |-> "check", bucket |-> b, count |-> S2[b].count,
                            window |-> S2[b].expires],
               !.served = instances.served + 1]
        /\ UNCHANGED <<users, nextId, now, issued, last, tlast, hlast, procs,
                       admission, fallback, llast, tables, vlast, uow, app>>

\* FixedWindowRateLimiter.hit returns incr(...) <= limit.amount: the
\* instance admits the request or answers 429
CheckCount(i) ==
    LET p == instances.proc[i]
        ok == p.count <= AUTH_DELETE_RATE_LIMIT.amount
        a == instances.admitted[p.bucket][p.window]
    IN  /\ p.pc = "check"
        /\ instances' = [instances EXCEPT
               !.proc[i] = Idle,
               !.admitted[p.bucket][p.window] =
                   IF ok THEN [a EXCEPT !.n = a.n + 1, !.by = a.by \cup {i}]
                   ELSE [a EXCEPT !.denied = a.denied + 1]]
        /\ UNCHANGED <<users, nextId, now, issued, last, tlast, hlast, procs,
                       admission, fallback, llast, tables, vlast, uow, app>>

StoreIncrStep == \E i \in Instances, key \in LimiterKeys : StoreIncr(i, key)

CheckCountStep == \E i \in Instances : CheckCount(i)
(***************************************************************************)
(* The application lifespan: the startup check of the database unless the  *)
(* environment is "test", the yield during which the application serves,   *)
(* and engine.dispose() in the finally clause.                             *)
(***************************************************************************)
MaxLifespans == 3       \* times the application is started in LifespanSpec

Environments == {"test", "local", "production", "Test"}

\* what ends the application body at the yield: a shutdown, or an exception
\* or a cancellation thrown into the context manager
ShutdownCauses == {"", "Exception", "CancelledError"}

\* verify_database_connection: SELECT 1, any Exception becomes RuntimeError
verify_database_connection(db_up) == IF db_up THEN "" ELSE "RuntimeError"

\* lifespan up to its yield, and the same without the try/finally
lifespan_startup_without_finally(environment, db_up) ==
    LET checked == environment # "test"
        raised == IF checked THEN verify_database_connection(db_up) ELSE ""
    IN  [checked |-> IF checked THEN 1 ELSE 0, raised |-> raised, disposed |-> 0]

lifespan_startup(environment, db_up) ==
    LET checked == environment # "test"
        raised == IF checked THEN verify_database_connection(db_up) ELSE ""
    IN  [checked |-> IF checked THEN 1 ELSE 0, raised |-> raised,
         disposed |-> IF raised # "" THEN 1 ELSE 0]

\* lifespan from its yield on: the finally clause runs whatever ended the body
lifespan_shutdown(a, thrown) ==
    [a EXCEPT !.pc = "stopped", !.raised = thrown, !.disposed = a.disposed + 1]

NotStarted ==
    [pc |-> "new", environment |-> "", checked |-> 0, disposed |-> 0, raised |-> "",
     finished |-> <<>>]

AInit == app = NotStarted

\* `async with lifespan(app)` is entered
Startup(environment, db_up) ==
    LET r == lifespan_startup(environment, db_up)
    IN  /\ app.pc \in {"new", "stopped"}
        /\ Len(app.finished) < MaxLifespans
        /\ app' = [pc |-> IF r.raised # "" THEN "stopped" ELSE "running",
                   environment |-> environment,
                   checked |-> r.checked,
                   disposed |-> r.disposed,
                   raised |-> r.raised,
                   finished |-> IF r.raised # ""
                                THEN Append(app.finished,
                                            [environment |-> environment, via |-> "startup",
                                             disposed |-> r.disposed])
                                ELSE app.finished]
        /\ UNCHANGED <<users, nextId, now, issued, last, tlast, hlast, procs,
                       admission, fallback, llast, tables, vlast, uow, instances>>

\* the body of `async with lifespan(app)` ends
Shutdown(thrown) ==
    LET a == lifespan_shutdown(app, thrown)
    IN  /\ app.pc = "running"
        /\ app' = [a EXCEPT !.finished =
                       Append(app.finished,
                              [environment |-> app.environment, via |-> "shutdown",
                               disposed |-> a.disposed])]
        /\ UNCHANGED <<users, nextId, now, issued, last, tlast, hlast, procs,
                       admission, fallback, llast, tables, vlast, uow, instances>>

StartupStep == \E environment \in Environments, db_up \in BOOLEAN : Startup(environment, db_up)

ShutdownStep == \E thrown \in ShutdownCauses : Shutdown(thrown)
(***************************************************************************)
(* The specifications.                                                     *)
(***************************************************************************)
RuntimeInit == UInit /\ IInit /\ AInit
AdmissionInit == SanInit /\ KInit /\ LimiterInit /\ XInit
ServicesInit == FInit /\ LInit /\ VInit /\ RuntimeInit
StoreInit == users = {} /\ nextId = 1
ClockInit == now = 0 /\ issued = {}
PInit == procs = <<>>

Init == StoreInit /\ ClockInit /\ SInit /\ TInit /\ HInit /\ PInit
    /\ AdmissionInit /\ ServicesInit

Next == RegisterStep \/ LoginStep \/ GetMeStep \/ DeleteMeStep \/ Tick

Spec == Init /\ [][Next]_vars

TokenNext == CreateAccessTokenStep \/ VerifyTokenStep \/ TokenTick

TokenSpec == Init /\ [][TokenNext]_vars

HashNext == HashPasswordStep \/ VerifyPasswordStep

RaceInit == StoreInit /\ ClockInit /\ SInit /\ TInit /\ HInit /\ RaceInputs
    /\ AdmissionInit /\ ServicesInit

RaceNext == RegCheckStep \/ RegHashStep \/ RegInsertStep \/ RegCommitStep

RaceSpec == RaceInit /\ [][RaceNext]_vars

HashInit == StoreInit /\ ClockInit /\ SInit /\ TInit /\ HashInputs /\ PInit
    /\ AdmissionInit /\ ServicesInit

HashSpec == HashInit /\ [][HashNext]_vars

SanitizeInit ==
    /\ StoreInit /\ ClockInit /\ SInit /\ TInit /\ HInit /\ PInit
    /\ SanitizeInputs /\ KInit /\ LimiterInit /\ XInit
    /\ ServicesInit

SanitizeNext == SanitizePromptStep \/ SanitizeAgainStep

SanitizeSpec == SanitizeInit /\ [][SanitizeNext]_vars

KeyInit ==
    /\ StoreInit /\ SInit /\ TInit /\ HInit /\ PInit
    /\ KeyInputs /\ SanInit /\ LimiterInit /\ XInit
    /\ ServicesInit

KeyNext == RateLimitKeyStep

KeySpec == KeyInit /\ [][KeyNext]_vars

LimiterSpecInit == Init

LimiterNext == LimiterHitStep \/ Sleep

LimiterSpec == LimiterSpecInit /\ [][LimiterNext]_vars

ExtractInit ==
    /\ ExtractInputs /\ SInit /\ TInit /\ HInit /\ PInit /\ AdmissionInit
    /\ ServicesInit

ExtractNext == ExtractStep

ExtractSpec == ExtractInit /\ [][ExtractNext]_vars

BudgetNext == BudgetRequestStep \/ Sleep

BudgetSpec == ExtractInit /\ [][BudgetNext]_vars

FallbackInit ==
    /\ ExtractInputs /\ SInit /\ TInit /\ HInit /\ PInit
    /\ SanInit /\ KInit /\ XInit /\ FInit /\ LInit /\ VInit /\ RuntimeInit
    /\ storage = [b \in RouteBuckets |-> NoCounter]
    /\ hits = [b \in Buckets |-> NoHistory]

FallbackNext == LimitedRequestStep \/ StoreGoesDown \/ StoreComesBack

FallbackSpec == FallbackInit /\ [][FallbackNext]_vars

LlmInit ==
    /\ ExtractInputs /\ SInit /\ TInit /\ HInit /\ PInit /\ AdmissionInit
    /\ FInit /\ VInit /\ RuntimeInit /\ LlmInputs

LlmNext == LlmExtractStep \/ NormalizeAgainStep

LlmSpec == LlmInit /\ [][LlmNext]_vars

ServiceNext ==
    RegisterUserStep \/ AuthenticateUserStep \/ GetUserByIdStep \/ DeleteUserStep

ServiceSpec == Init /\ [][ServiceNext]_vars

CascadeInit == ExtractInit

CascadeNext ==
    InsertInterestStep \/ InsertNewsletterStep \/ InsertContentItemStep \/ DeleteUserStep

CascadeSpec == CascadeInit /\ [][CascadeNext]_vars

UowNext == EnterDependenciesStep \/ HandlerStep \/ ExitDependencyStep

UowSpec == Init /\ [][UowNext]_vars

SharedNext == StoreIncrStep \/ CheckCountStep \/ Sleep

SharedSpec == Init /\ [][SharedNext]_vars

LifespanNext == StartupStep \/ ShutdownStep

LifespanSpec == Init /\ [][LifespanNext]_vars

(***************************************************************************)
(* Properties.                                                             *)
(***************************************************************************)
EmailUnique == \A u1, u2 \in users : u1.email = u2.email => u1 = u2

UserExistsResp == Resp(400, "user_exists", "Email already registered", "")

\* C1: when register requests for one email interleave so that several pass
\* the advisory check and reach the INSERT, exactly one of them creates the
\* user, every other one ends in UserAlreadyExists (400 user_exists), none
\* ends in a raw storage error, and no two stored users share an email.
RegisterRaceYieldsOneUser ==
    /\ EmailUnique
    /\ \A p \in Procs :
         procs[p].pc = "done" =>
            procs[p].exc \in {"", "UserAlreadyExistsError", "PasswordTooLongError"}
    /\ \A e \in Emails :
         LET racers == { p \in Procs : procs[p].email = e /\ procs[p].tried
                                        /\ procs[p].pc = "done" }
         IN  racers # {} =>
               /\ Cardinality({ p \in racers : procs[p].exc = "" }) = 1
               /\ \A p \in racers :
                    procs[p].exc # "" =>
                       /\ procs[p].exc = "UserAlreadyExistsError"
                       /\ procs[p].resp = UserExistsResp

RegisterRaceWitness ==
    \E p, q \in Procs :
        /\ p # q
        /\ procs[p].email = procs[q].email
        /\ procs[p].pc = "done" /\ procs[q].pc = "done"
        /\ procs[p].tried /\ procs[q].tried
        /\ procs[p].exc = "" /\ procs[q].exc = "UserAlreadyExistsError"
        /\ Cardinality({ u \in users : u.email = procs[p].email }) = 1

InvalidCredentialsResp ==
    Resp(401, "invalid_credentials", "Incorrect email or password", "Bearer")

\* the password is not the one the account was registered with
WrongPassword(pw, user) == Encode(pw) # user.hashed_password.digest

\* C3: a login fails in exactly the same way (InvalidCredentials, 401, same
\* code, message and headers) for an email that is not registered as for a
\* registered email with a wrong password.
LoginFailureDoesNotRevealAccount ==
    last.op = "login" =>
        LET user == select_user_by_email(last.before, last.email)
        IN  (user = NoUser \/ WrongPassword(last.pw, user)) =>
               /\ last.exc = "InvalidCredentialsError"
               /\ last.resp = InvalidCredentialsResp

\* C4: authenticate_user reports PasswordTooLong for every password longer
\* than 72 bytes, whether or not the email is registered.
TooLongPasswordReportedForAnyEmail ==
    (last.op = "login" /\ Utf8Len(last.pw) > 72) => last.exc = "PasswordTooLongError"

UnauthorizedResp == Resp(401, "unauthorized", "Could not validate credentials", "Bearer")

Protected == {"get_me", "delete_me"}

\* the token a request presented, when its header has the bearer form
Presented(call) == call.hdr.present /\ Lower(call.hdr.scheme) = "bearer"

\* C5: get_current_user returns user u exactly when the signature verifies
\* under the secret and algorithm, the current time is before the expiry,
\* the subject is a string that parses to u's id, and u is stored; a token
\* issued by login for u resolves to u only, and once u is deleted every
\* token issued for u is rejected as unauthorized on every protected route.
CurrentUserExactlyForValidToken ==
    last.op \in Protected =>
        LET tok == last.hdr.param
        IN  /\ \A id \in 1..(MaxUsers + 1) :
                 (last.resp.status = 200 /\ last.uid = id)
                   <=> /\ Presented(last)
                       /\ tok.kind = "jwt" /\ tok.key = SecretKey /\ tok.alg = Algorithm
                       /\ ToSeconds(last.at) < tok.exp
                       /\ tok.sub.t = "str"
                       /\ IntParse(tok.sub.s) = Returned(id)
                       /\ \E u \in last.before : u.id = id
            /\ \A i \in issued :
                 (Presented(last) /\ i.tok = tok /\ last.resp.status = 200) => last.uid = i.uid
            /\ \A i \in issued :
                 (Presented(last) /\ i.tok = tok /\ ~\E u \in last.before : u.id = i.uid)
                    => last.resp = UnauthorizedResp

\* C6: every way a protected request fails authentication gives the same
\* response: 401, code unauthorized, the same message and WWW-Authenticate.
AuthFailuresAreUniform ==
    (last.op \in Protected /\ last.resp.status # 200) => last.resp = UnauthorizedResp

Ttl(delta) == IF delta.set THEN delta.d ELSE jwt_access_token_expire_ticks

\* C7: a token issued at t0 with ttl T verifies at every time before t0+T
\* and fails at every time at or after t0+T.
TokenValidExactlyBeforeExpiry ==
    \A i \in issued :
        (tlast.op = "verify_token" /\ tlast.tok = i.tok /\ Ttl(i.delta) # 0) =>
            ((tlast.value # None) <=> (tlast.at < i.t0 + Ttl(i.delta)))

\* C8: create_access_token sets the expiry to issue time plus the supplied
\* expires_delta, a zero duration included, and uses the configured default
\* only when no expires_delta is supplied.
ExpiryIsIssueTimePlusDelta ==
    tlast.op = "create_access_token" =>
        tlast.tok.exp = ToSeconds(tlast.at + Ttl(tlast.delta))

\* C9: verify_token never raises; for an empty or malformed string, a token
\* signed with another secret or algorithm, and a token whose expiry is in
\* the past it returns None, the same value in each case.
VerifyTokenReturnsNoneNeverRaises ==
    tlast.op = "verify_token" =>
        /\ tlast.raised = ""
        /\ ( \/ tlast.tok.kind # "jwt"
             \/ tlast.tok.key # SecretKey
             \/ tlast.tok.alg # Algorithm
             \/ tlast.tok.exp < ToSeconds(tlast.at) ) => tlast.value = None

VerifyExpiredWitness ==
    /\ tlast.op = "verify_token"
    /\ tlast.tok.kind = "jwt" /\ tlast.tok.key = SecretKey
    /\ tlast.tok.exp < ToSeconds(tlast.at)
    /\ tlast.value = None

\* C10: get_password_hash and verify_password raise the too-long error
\* exactly when the password takes more than 72 bytes in UTF-8 (bytes, not
\* characters), before hashing or comparing: what is hashed is the whole
\* password, and a password is accepted only if the whole of it matches.
PasswordLimitIsSeventyTwoBytes ==
    /\ hlast.op \in {"get_password_hash", "verify_password"} =>
         ((hlast.raised = "ValueError") <=> (Utf8Len(hlast.pw) > 72))
    /\ (hlast.op = "get_password_hash" /\ hlast.raised = "") =>
         hlast.hashed.digest = Encode(hlast.pw)
    /\ (hlast.op = "verify_password" /\ hlast.raised = "" /\ hlast.valid) =>
         hlast.hash.digest = Encode(hlast.pw)
    /\ hlast.op = "verify_password" => ByteLen(hlast.hash.digest) <= 72

PasswordLimitWitness ==
    /\ hlast.op = "verify_password"
    /\ CharLen(hlast.pw) <= 72
    /\ Utf8Len(hlast.pw) = 73
    /\ hlast.raised = "ValueError"

(***************************************************************************)
(* Prompt sanitizer properties (SanitizeSpec).                             *)
(***************************************************************************)
SanitizeReturned == slast.op \in {"sanitize_prompt", "sanitize_again"} /\ slast.first.raised = ""

\* C11: a prompt that carries an instruction-override phrase once its code
\* spans are removed is rejected, so the text sanitize_prompt returns never
\* matches an injection pattern.
InjectionPhraseNeverSurvives ==
    slast.op \in {"sanitize_prompt", "sanitize_again"} =>
        /\ INJECTION_PATTERNS(strip_and_normalize(slast.prompt)) => slast.first.raised # ""
        /\ slast.first.raised = "" => ~INJECTION_PATTERNS(slast.first.value)

\* C12: the text sanitize_prompt returns holds no fenced block and no inline
\* code span.
ReturnedTextHasNoCodeSpan ==
    SanitizeReturned =>
        /\ ~CODE_BLOCK_PATTERN(slast.first.value)
        /\ ~INLINE_CODE_PATTERN(slast.first.value)

\* C13: sanitizing a returned text again succeeds and gives the same text.
SanitizeIsIdempotent ==
    slast.op = "sanitize_again" =>
        /\ slast.second.raised = ""
        /\ slast.second.value = slast.first.value

\* C14: the error reported is that of the first failing check in the order
\* control characters, URLs, injection phrases, emptiness after stripping;
\* text is returned only when the first three checks passed on the raw prompt.
ChecksRunInFixedOrder ==
    slast.op \in {"sanitize_prompt", "sanitize_again"} =>
        LET p == slast.prompt
            r == slast.first
            control == CONTROL_CHARS_PATTERN(p)
            url == URL_PATTERN(p)
            injection == INJECTION_PATTERNS(p)
        IN  /\ control => r.raised # "" /\ r.message = ControlMessage
            /\ ~control /\ url => r.raised # "" /\ r.message = UrlMessage
            /\ ~control /\ ~url /\ injection =>
                   r.raised # "" /\ r.message = InstructionMessage
            /\ r.message = EmptyMessage => ~control /\ ~url /\ ~injection
            /\ r.raised = "" => ~control /\ ~url /\ ~injection

ChecksOrderWitness ==
    /\ slast.op = "sanitize_prompt"
    /\ CONTROL_CHARS_PATTERN(slast.prompt)
    /\ URL_PATTERN(slast.prompt)
    /\ INJECTION_PATTERNS(slast.prompt)
    /\ slast.first.message = ControlMessage

\* the prompt has nothing but whitespace left once its code spans are stripped
EmptyAfterStripping(p) ==
    \A i \in 1..Len(inline_code_sub(code_block_sub(p))) :
        inline_code_sub(code_block_sub(p))[i] \in Whitespace

\* C15: a returned text is non-empty, does not start or end with whitespace
\* and has no whitespace but single spaces between words; a prompt that is
\* empty after stripping is rejected with invalid_prompt.
ReturnedTextIsNormalized ==
    slast.op \in {"sanitize_prompt", "sanitize_again"} =>
        LET v == slast.first.value
        IN  /\ slast.first.raised = "" =>
                /\ v # <<>>
                /\ v[1] \notin Whitespace /\ v[Len(v)] \notin Whitespace
                /\ \A i \in 1..Len(v) :
                       v[i] \in Whitespace => v[i] = " " /\ v[i + 1] \notin Whitespace
            /\ EmptyAfterStripping(slast.prompt) =>
                   slast.first.raised = "PromptValidationError"
                   /\ slast.first.code = "invalid_prompt"

NormalizedWitness ==
    /\ slast.op = "sanitize_prompt"
    /\ slast.first.raised = ""
    /\ \E i \in 1..Len(slast.prompt) : slast.prompt[i] = "\n"
    /\ \E i \in 1..Len(slast.first.value) : slast.first.value[i] = " "

(***************************************************************************)
(* Admission properties (ExtractSpec, KeySpec, LimiterSpec).               *)
(***************************************************************************)
\* the token carries the server's signature and its expiry has not passed
Verifies(tok, t) ==
    tok.kind = "jwt" /\ tok.key = SecretKey /\ tok.alg = Algorithm /\ tok.exp >= ToSeconds(t)

\* the request presented a bearer token of an existing user
ExtractAuthenticated(x) ==
    /\ x.hdr.present
    /\ x.hdr.scheme \in {"Bearer", "bearer"}
    /\ Verifies(x.hdr.param, x.at)
    /\ \E u \in users : x.hdr.param.sub = StrSub(StrOfInt(u.id))

RateLimitedResp == Resp(429, "rate_limited", "Too many requests", "")

\* C16: the LLM client is called only for an authenticated request whose
\* prompt passed sanitize_prompt, with exactly the sanitizer's output; it is
\* not called when authentication or sanitization fails.
LlmCalledOnlyWithSanitizedPrompt ==
    xlast.op = "extract" =>
        LET san == sanitize_prompt(xlast.prompt)
        IN  /\ xlast.llm.called =>
                /\ ExtractAuthenticated(xlast)
                /\ san.raised = ""
                /\ xlast.llm.text = san.value
            /\ ~ExtractAuthenticated(xlast) \/ san.raised # "" => ~xlast.llm.called

LlmCalledWitness ==
    /\ xlast.op = "extract"
    /\ xlast.llm.called
    /\ xlast.llm.text # xlast.prompt
    /\ xlast.resp.status = 200

\* C17: with 5 per minute keyed by subject, a subject's request is admitted
\* while fewer than 5 of its requests lie in the last minute, and the request
\* after 5 requests in the window its first request opened is denied with
\* 429, whatever the addresses and whatever other subjects did.
SubjectBudgetIsFivePerWindow ==
    xlast.op = "extract" /\ ExtractAuthenticated(xlast)
        /\ validate_prompt_length(xlast.prompt) =>
        LET log == xlast.prior.log
            W == Window(INTEREST_EXTRACT_RATE_LIMIT)
            recent == { i \in 1..Len(log) : log[i].at > xlast.at - W }
        IN  /\ Cardinality(recent) < 5 => xlast.resp.status # 429
            /\ Len(log) >= 5 /\ xlast.at - log[1].at < W => xlast.resp = RateLimitedResp

SubjectBudgetWitness ==
    /\ xlast.op = "extract"
    /\ xlast.resp = RateLimitedResp
    /\ Len(xlast.prior.log) = 5
    /\ xlast.addr # xlast.prior.addr0
    /\ \E u \in users : u # xlast.user /\ Len(hits[SubjectBucket(u)].log) > 0
                        /\ hits[SubjectBucket(u)].addr0 = xlast.prior.addr0

\* C18: the key is "user:<sub>" exactly for a header Bearer <non-empty token>
\* (scheme in any case) whose token verifies and has a non-empty string
\* subject, and "ip:<address>" otherwise; deriving it never raises.
KeyIsUserExactlyForVerifiedSubject ==
    klast.op = "rate_limit_user_or_ip_key" =>
        LET tok == klast.hdr.param
            subject == /\ klast.hdr.present
                       /\ klast.hdr.scheme \in {"Bearer", "bearer"}
                       /\ tok # EmptyToken
                       /\ Verifies(tok, klast.at)
                       /\ tok.sub.t = "str" /\ tok.sub.s # <<>>
        IN  /\ klast.raised = ""
            /\ klast.key = IF subject THEN Key("user", tok.sub.s)
                           ELSE Key("ip", klast.addr)

KeyForSubjectWitness ==
    /\ klast.op = "rate_limit_user_or_ip_key"
    /\ klast.hdr.scheme = "bearer"
    /\ klast.key.prefix = "user"

\* C19: for every (key, limit) pair, the requests admitted in any interval
\* no longer than the limit's window never number more than the limit's count.
AdmittedNeverExceedLimitInAnyWindow ==
    \A l \in Limits, k \in AllKeys :
        LET log == hits[Bucket(l, k)].log
        IN  \A i \in 1..Len(log) :
                Cardinality({ j \in 1..Len(log) :
                                /\ log[j].ok
                                /\ log[j].at > log[i].at - Window(l)
                                /\ log[j].at <= log[i].at }) <= l.amount

\* C20: a request over its budget is rejected as rate_limited before any
\* token verification, user lookup, database session, sanitization or LLM call.
OverBudgetRejectedBeforeAnyWork ==
    xlast.op = "extract" /\ xlast.over =>
        /\ xlast.resp = RateLimitedResp
        /\ \A i \in 1..Len(xlast.steps) :
               xlast.steps[i] \notin
                   {"get_db", "verify_token", "select_user", "sanitize_prompt", "llm_client"}

(***************************************************************************)
(* Properties of the limiter's fallback, of the error vocabulary and of    *)
(* the LLM client's failures.                                              *)
(***************************************************************************)
\* C21: while the counter store is unreachable the limiter still enforces the
\* limit of every route: a request that arrives when the route's count of
\* requests has already been admitted for its key within the window is denied.
FallbackStillEnforcesRouteLimits ==
    \A r \in Routes :
        (flast.op = "request" /\ flast.route = r.name /\ ~flast.up
            /\ flast.prior >= r.limit.amount)
        => ~flast.ok

\* the closed vocabulary of error codes
ErrorVocabulary ==
    { "user_exists", "password_too_long", "invalid_credentials", "unauthorized",
      "invalid_prompt", "validation_error", "rate_limited", "llm_unavailable",
      "llm_auth_failed", "llm_response_invalid" }

\* C22: the error field of every error response is one of the ten codes of the
\* vocabulary.
EveryErrorCodeIsInVocabulary ==
    \A r \in { last.resp, xlast.resp, llast.resp } :
        r.status >= 400 => r.error \in ErrorVocabulary

\* the three categories of failure of the LLM call and their HTTP status
LLMFailureCategories ==
    { <<"llm_unavailable", 503>>, <<"llm_auth_failed", 502>>, <<"llm_response_invalid", 502>> }

\* C23: every failure of the LLM call reaches the caller as one of the three
\* categories unavailable (503), authentication failure (502) and invalid
\* response (502), with the code the client assigned.
LlmFailureIsOneOfThreeCategories ==
    (llast.op = "extract_interests" /\ llast.outcome.exc # "")
    => /\ <<llast.resp.error, llast.resp.status>> \in LLMFailureCategories
       /\ llast.resp.error = llast.outcome.code

(***************************************************************************)
(* Properties of the interest lists.                                       *)
(***************************************************************************)
\* s without the whitespace at its ends
TrimOf(s) ==
    LET inner == { i \in 1..Len(s) : s[i] \notin Whitespace }
    IN  IF inner = {} THEN <<>>
        ELSE SubSeq(s, CHOOSE i \in inner : \A j \in inner : i <= j,
                       CHOOSE i \in inner : \A j \in inner : j <= i)

SameLabel(a, b) ==
    /\ Len(a) = Len(b)
    /\ \A i \in 1..Len(a) : IgnoreCase(a[i]) = IgnoreCase(b[i])

\* the positions of value whose trimmed item is not empty and is not the label
\* of an earlier position
FirstOccurrences(value) ==
    { i \in 1..Len(value) :
        /\ TrimOf(value[i]) # <<>>
        /\ \A j \in 1..(i - 1) : ~SameLabel(TrimOf(value[j]), TrimOf(value[i])) }

IsNormalizationOf(out, value) ==
    LET kept == FirstOccurrences(value)
    IN  /\ Len(out) = Cardinality(kept)
        /\ \A i \in kept : out[Cardinality({ j \in kept : j <= i })] = TrimOf(value[i])

\* C25: normalize_interests returns the trimmed non-empty items in their
\* original order, keeping the first occurrence of each label compared
\* case-insensitively, and leaves its own output unchanged.
NormalizationKeepsFirstTrimmedLabels ==
    /\ (llast.op \in {"extract_interests", "normalize_interests"} /\ llast.outcome.exc = "")
       => /\ IsNormalizationOf(llast.result.add_interests, llast.reply.add)
          /\ IsNormalizationOf(llast.result.remove_interests, llast.reply.remove)
    /\ llast.op = "normalize_interests" => llast.again = llast.result

NormalizationWitness ==
    /\ llast.op = "normalize_interests"
    /\ llast.reply.add = << <<" ", "a">>, <<" ">>, <<"A">> >>
    /\ llast.result.add_interests = << <<"a">> >>
    /\ llast.again = llast.result

(***************************************************************************)
(* Properties of AuthService and of the rows a user owns.                  *)
(***************************************************************************)
ReferentialIntegrity ==
    /\ \A i \in interests : i.user_id \in Ids(users)
    /\ \A n \in newsletters : n.user_id \in Ids(users)
    /\ \A c \in content_items : c.newsletter_id \in Ids(newsletters)

\* C24: delete_user(u) succeeds whether or not u owns rows, and removes the
\* user with every Interest and Newsletter of u and every ContentItem of those
\* newsletters; no row ever refers to a user or newsletter that does not exist.
DeleteUserCascadesToOwnedRows ==
    /\ ReferentialIntegrity
    /\ vlast.op = "delete_user"
       => /\ vlast.exc = ""
          /\ vlast.returned = vlast.id
          /\ vlast.id \notin Ids(users)
          /\ \A i \in interests : i.user_id # vlast.id
          /\ \A n \in newsletters : n.user_id # vlast.id

\* the words by which register_user recognises a violated unique index
UniquenessSignature == {"unique", "duplicate", "23505", "ix_users_email"}

\* the call of register_user got as far as the INSERT, which failed
InsertFailed(call) ==
    /\ call.op = "register_user"
    /\ call.fault # {}
    /\ call.email \notin { u.email : u \in call.before.users }
    /\ call.exc # "PasswordTooLongError"

\* C27: an integrity error of the INSERT whose text has none of the words of
\* the uniqueness signature leaves register_user unchanged and is not reported
\* as UserAlreadyExists; one whose text has such a word becomes UserAlreadyExists.
UncategorizedIntegrityErrorPropagates ==
    InsertFailed(vlast)
    => IF vlast.fault \cap UniquenessSignature = {}
       THEN vlast.exc = "IntegrityError" /\ vlast.orig = vlast.fault
       ELSE vlast.exc = "UserAlreadyExistsError"

UncategorizedErrorWitness ==
    /\ InsertFailed(vlast)
    /\ vlast.fault = NotNullViolationText
    /\ vlast.exc = "IntegrityError"
    /\ vlast.orig = NotNullViolationText

\* C30: a register_user call that ends in UserAlreadyExists or PasswordTooLong,
\* every authenticate_user and get_user_by_id call, and a delete_user call for
\* an id that is not stored leave the stored users as they were; that
\* delete_user call returns the id and raises nothing.
RejectedAndReadOnlyCallsKeepUsers ==
    /\ (vlast.op = "register_user"
            /\ vlast.exc \in {"UserAlreadyExistsError", "PasswordTooLongError"})
       => users = vlast.before.users
    /\ vlast.op \in {"authenticate_user", "get_user_by_id"} => users = vlast.before.users
    /\ (vlast.op = "delete_user" /\ vlast.id \notin Ids(vlast.before.users))
       => /\ users = vlast.before.users
          /\ vlast.exc = ""
          /\ vlast.returned = vlast.id

DeleteMissingUserWitness ==
    /\ vlast.op = "delete_user"
    /\ vlast.before.users # {}
    /\ vlast.id \notin Ids(vlast.before.users)
    /\ vlast.returned = vlast.id
    /\ users = vlast.before.users

SharedCounterNeverOverAdmits ==
    \A b \in SharedBuckets, w \in WindowIds :
        instances.admitted[b][w].n <= AUTH_DELETE_RATE_LIMIT.amount

\* both instances had a request admitted in one window of one key, and a
\* further request of that window was denied
SharedCounterWitness ==
    \E b \in SharedBuckets, w \in WindowIds :
        /\ instances.admitted[b][w].by = Instances
        /\ instances.admitted[b][w].n = AUTH_DELETE_RATE_LIMIT.amount
        /\ instances.admitted[b][w].denied >= 1

\* C29: a lifespan that is over has disposed the engine exactly once, after
\* a shutdown as after a startup check that raised; a lifespan still running
\* has not disposed it; and the startup check ran exactly when the
\* environment is not "test"
LifespanDisposesEngineOnce ==
    /\ \A k \in 1..Len(app.finished) : app.finished[k].disposed = 1
    /\ app.pc = "stopped" => app.disposed = 1
    /\ app.pc = "running" => app.disposed = 0
    /\ app.pc \in {"running", "stopped"} =>
           (app.checked = 1 <=> app.environment # "test")

\* the startup check raised in a non-test environment and the lifespan is over
LifespanStartupFailedWitness ==
    /\ app.pc = "stopped"
    /\ app.environment # "test"
    /\ app.raised = "RuntimeError"
    /\ app.checked = 1
    /\ app.finished[Len(app.finished)].via = "startup"

====
